---- MODULE Spec2Model ----
(***************************************************************************)
(* Task lifecycle and inventory ledger of the tilal backend.               *)
(*                                                                         *)
(* The persistent store (MongoDB documents) is the shared state.  Every    *)
(* HTTP request is a process in a slot of `req`: it holds the request's    *)
(* inputs, the documents it has loaded (its private in-memory copies) and  *)
(* its position `pc`.  One action is one access of the store together with *)
(* the synchronous code that follows it up to the next `await`; requests   *)
(* interleave between their awaits.                                        *)
(***************************************************************************)
EXTENDS Integers, Sequences, FiniteSets, TLC

VARIABLES
    inventory,        \* Inventory: item id -> stored quantity.current
    tasks,            \* Task collection: task id -> task document, or NoTask
    clientCompleted,  \* Client.completedTasks of the one client
    workerCompleted,  \* User.workerDetails.completedTasks, per user id
    siteCompleted,    \* Site.completedTasks of the one site
    sections,         \* Site.sections: section id -> its lastTask summary
    req,              \* the requests in flight, per slot
    issued,           \* history: item id -> total quantity that material
                      \* deductions reported deducted
    completions,      \* history: task id -> number of requests that reported
                      \* having completed the task
    refImages,        \* Site.sections[].referenceImages: section id -> the
                      \* section's reference images, in order
    clientTotal,      \* Client.totalTasks, per client id
    siteTotal,        \* Site.totalTasks of the one site
    siteVersion,      \* the site document's version key __v
    destroyed,        \* the storage ids the media host has destroyed
    controller,       \* which of the two task controllers is deployed
    coverImage,       \* Site.coverImage.cloudinaryId of the one site, or None
    uploaded,         \* the storage ids the media host has given to uploads
    now               \* the clock new Date() reads

vars == <<inventory, tasks, clientCompleted, workerCompleted, siteCompleted,
          sections, req, issued, completions, refImages, clientTotal, siteTotal,
          siteVersion, destroyed, controller, coverImage, uploaded, now>>

\* ------------------------------------------------------------------ bounds

\* request slots: how many requests can be in flight at once
MaxReqs == 2
\* largest stock level an inventory item starts from or is restocked to
MaxStock == 2
\* largest amount (in absolute value) a deduct/restock call is given
MaxAmt == 2
\* largest number of task documents
MaxTasks == 2
\* cap on each completedTasks counter
MaxCount == 2
\* the clock stops at MaxTime
MaxTime == 1

\* how many times reference images are added to the site's sections
MaxEdits == 2

\* ------------------------------------------------------------ the universe

None == "none"
NoTask == [absent |-> TRUE]

Reqs == 1..MaxReqs
Items == {"i1", "i2"}
TaskIds == 1..MaxTasks
SectionIds == {"s1", "s2"}
Workers == {"w1", "w2"}
Admins == {"admin"}
Users == Workers \cup Admins
Clients == {"c1", "c2"}
Callers == Users \cup Clients

\* req.user.role as protect sets it: a Client document gives "client", a User
\* document its own role
Role(u) == IF u \in Workers THEN "worker"
           ELSE IF u \in Clients THEN "client"
           ELSE "admin"

\* the one site, its client, and its sections in the order the site holds them
TheSite == "site1"
SiteClient == "c1"
SiteSections == <<"s1", "s2">>

\* the reference images sections can hold
ImageIds == {"a", "b", "c"}

NoFeedback == [absent |-> TRUE]

\* a request body that holds none of the further fields
NoBody == [absent |-> TRUE]

\* a Date path that is not set (the clock never reads a negative time)
NoDate == 0 - 1

\* the clock counts steps of 18 seconds: 200 to the hour
TicksPerHour == 200

\* taskSchema.cost: labor, materials and total have default: 0
DefaultCost == [labor |-> 0, materials |-> 0, total |-> 0]

\* taskSchema.priority: its enum
Priorities == {"low", "medium", "high", "urgent"}

\* the two task controllers of the repository: the one that snapshots the
\* reference images at creation, and the legacy one
Controllers == {"snapshot", "legacy"}

Statuses == {"pending", "assigned", "in-progress", "completed", "review", "rejected"}

\* ------------------------------------------------------------- Inventory

\* the schema without its min: 0
QuantityUnchecked(v) == TRUE

\* schema: quantity.current has min: 0, enforced by the validators of save()
QuantityValid(v) == v >= 0

\* deduct refusing to take the last of the stock
DeductNoEqual(current, amount) ==
    IF current <= amount
    THEN [ok |-> FALSE, current |-> current]
    ELSE [ok |-> TRUE, current |-> current - amount]

\* inventorySchema.methods.deduct, up to its save(): the in-memory document
Deduct(current, amount) ==
    IF current < amount
    THEN [ok |-> FALSE, current |-> current]
    ELSE [ok |-> TRUE, current |-> current - amount]

\* inventorySchema.methods.restock, up to its save()
Restock(current, amount) == current + amount

\* document.save() of an inventory document whose quantity.current is v:
\* the validators run first, then the modified path is written ($set)
InventorySave(store, item, v) ==
    IF QuantityValid(v) THEN [store EXCEPT ![item] = v] ELSE store

\* ---------------------------------------------------------------- requests

\* op, caller, task: the route, req.user.id, req.params.id
\* bstatus, bworker: req.body.status, req.body.worker (workerId for assignTask)
\* item, amt:        the inventory item and amount of a ledger call
\* tdoc, idoc:       the loaded task document, the loaded quantity.current
\* mi, si:           materials deducted so far, sections saved so far
\* bsite, bsections, bclient: req.body.site, .sections, .client of createTask
\* rating, comment, imageNumber: req.body.rating, .comment, .imageNumber
\* file:             whether req.file holds an uploaded feedback image
\* image, storage, section: imageId, cloudinaryId, sectionId of a deletion
\* sdoc, sver:       the loaded section's referenceImages, the loaded site's __v
\* snap:             the referenceImages createTask has collected
\* valid:            the validSections createTask has collected
\* ssecs, ssum:      the ids of the sections of the loaded site, their summaries
\* body:             the further fields of req.body of updateTask
\* etype, itype:     entityType and imageType of a media request
\* files, visible:   req.files (their storage ids), req.body.isVisibleToClient
\* ids, flag:        req.body.imageIds, .isVisible of bulkUpdateImageVisibility
\* extok:            whether the external deletion of this request succeeded
\* out:              the data of the response
IdleReq ==
    [op |-> None, pc |-> "idle", caller |-> None, task |-> 0,
     bstatus |-> None, bworker |-> None, item |-> None, amt |-> 0,
     tdoc |-> NoTask, idoc |-> 0, mi |-> 0, si |-> 0, res |-> None,
     bsite |-> None, bsections |-> <<>>, bclient |-> None,
     rating |-> None, comment |-> None, imageNumber |-> None, file |-> FALSE,
     image |-> None, storage |-> None, section |-> None, sdoc |-> <<>>,
     sver |-> 0, snap |-> <<>>, valid |-> <<>>, ssecs |-> {}, ssum |-> <<>>,
     body |-> NoBody,
     etype |-> None, itype |-> None, files |-> <<>>, visible |-> None,
     ids |-> {}, flag |-> FALSE, extok |-> FALSE, out |-> None]

Done(rq, result) == [rq EXCEPT !.pc = "done", !.res = result]

\* slots are taken in order, so that two states never differ only by the
\* slot a request sits in
FreeSlot(r) ==
    /\ req[r].pc = "idle"
    /\ \A q \in Reqs : q < r => req[q].pc # "idle"

siteVars == <<refImages, clientTotal, siteTotal, siteVersion, destroyed, controller,
              coverImage>>
envVars == <<uploaded, now>>
taskVars == <<tasks, clientCompleted, workerCompleted, siteCompleted, sections,
              issued, completions, siteVars, envVars>>
counters == <<clientCompleted, workerCompleted, siteCompleted>>

\* A caller obtains the inventory document (Inventory.findById) in order to
\* call deduct or restock on it.
InvFind(r, op, item, amt) ==
    /\ FreeSlot(r)
    /\ op = "restock" => inventory[item] + amt <= MaxStock
    /\ op = "deduct" => inventory[item] - amt <= MaxStock
    /\ req' = [req EXCEPT ![r] =
                 [IdleReq EXCEPT !.op = op, !.pc = "loaded", !.item = item,
                                 !.amt = amt, !.idoc = inventory[item]]]
    /\ UNCHANGED <<inventory, taskVars>>

\* inventoryItem.deduct(amount)
InvDeduct(r) ==
    LET rq == req[r]
        d == Deduct(rq.idoc, rq.amt)
    IN
    /\ rq.pc = "loaded"
    /\ rq.op = "deduct"
    /\ IF ~d.ok
       THEN /\ req' = [req EXCEPT ![r] = Done(rq, "insufficient")]
            /\ UNCHANGED inventory
       ELSE /\ inventory' = InventorySave(inventory, rq.item, d.current)
            /\ req' = [req EXCEPT ![r] =
                         Done(rq, IF QuantityValid(d.current) THEN "ok" ELSE "invalid")]
    /\ UNCHANGED taskVars

\* inventoryItem.restock(amount)
InvRestock(r) ==
    LET rq == req[r]
        v == Restock(rq.idoc, rq.amt)
    IN
    /\ rq.pc = "loaded"
    /\ rq.op = "restock"
    /\ inventory' = InventorySave(inventory, rq.item, v)
    /\ req' = [req EXCEPT ![r] =
                 Done(rq, IF QuantityValid(v) THEN "ok" ELSE "invalid")]
    /\ UNCHANGED taskVars

\* ------------------------------------------------------------------ tasks

Material(item, quantity) == [item |-> item, quantity |-> quantity]

\* the fields of a task document the handlers read and write; a task is given
\* the site's client, no feedback and no media unless stated otherwise, and
\* the defaults of the schema; v is the version key __v
TaskDoc(status, worker, materials, secs) ==
    [status |-> status, worker |-> worker, materials |-> materials, sections |-> secs,
     client |-> SiteClient, feedback |-> NoFeedback,
     images |-> [before |-> <<>>, after |-> <<>>],
     cost |-> DefaultCost, startedAt |-> NoDate, completedAt |-> NoDate,
     actualDuration |-> 0, priority |-> "medium", v |-> 0]

\* a task document as startTask leaves it at the clock's origin
Started(doc) == [doc EXCEPT !.startedAt = 0]

\* a task document as completeTask leaves it at the clock's origin
Finished(doc) == [doc EXCEPT !.completedAt = 0]

\* Math.round(x): the nearest integer, a half rounded up
\* (x is given as the fraction num / den, den > 0)
MathRound(num, den) == (2 * num + den) \div (2 * den)

\* the pre-save hook's actualDuration of a task that took d ticks: the hours
\* rounded to 2 decimals, counted in hundredths of an hour
Round2(d) == MathRound(d * 100, TicksPerHour)

\* the pre-save hook that leaves cost.total alone
PreSaveNoTotal(doc) ==
    IF doc.startedAt # NoDate /\ doc.completedAt # NoDate
    THEN [doc EXCEPT !.actualDuration = Round2(doc.completedAt - doc.startedAt)]
    ELSE doc

\* taskSchema.pre("save"): actualDuration when both dates are set, cost.total
PreSave(doc) ==
    LET timed == IF doc.startedAt # NoDate /\ doc.completedAt # NoDate
                 THEN [doc EXCEPT !.actualDuration =
                                      Round2(doc.completedAt - doc.startedAt)]
                 ELSE doc
    IN [timed EXCEPT !.cost.total = timed.cost.labor + timed.cost.materials]

\* the id the store gives the next task document: the first unused one of `ids`
NewTaskId(ids) ==
    {t \in ids : tasks[t] = NoTask /\ \A y \in ids : tasks[y] = NoTask => t <= y}

\* createTask: the site and its sections exist (checked by the caller of this
\* action, which draws `secs` from the site's sections); Task.create stores
\* the document with status "pending".  The variant that snapshots reference
\* media requires a worker, the other variant takes the request body as it
\* is, where the worker may be missing.
CreateTask(r, t, worker, materials, secs) ==
    /\ FreeSlot(r)
    /\ tasks[t] = NoTask
    /\ tasks' = [tasks EXCEPT ![t] = TaskDoc("pending", worker, materials, secs)]
    /\ req' = [req EXCEPT ![r] =
                 Done([IdleReq EXCEPT !.op = "createTask", !.caller = "admin",
                                      !.task = t, !.bworker = worker], "ok")]
    /\ UNCHANGED <<envVars, siteVars, inventory, counters, sections, issued, completions>>

\* document.save() writes the paths whose value was changed on the loaded
\* document: a path set to the value it was loaded with is not written
SavePath(stored, loaded, value) == IF value = loaded THEN stored ELSE value

\* task.save() of the document `doc` that was loaded as `loaded`: the paths
\* whose value differs from the loaded one are set on the stored document
\* (the arrays and the feedback are written by the handlers that change them)
SaveTask(stored, loaded, doc) ==
    [stored EXCEPT
       !.status = SavePath(@, loaded.status, doc.status),
       !.worker = SavePath(@, loaded.worker, doc.worker),
       !.startedAt = SavePath(@, loaded.startedAt, doc.startedAt),
       !.completedAt = SavePath(@, loaded.completedAt, doc.completedAt),
       !.actualDuration = SavePath(@, loaded.actualDuration, doc.actualDuration),
       !.cost.total = SavePath(@, loaded.cost.total, doc.cost.total)]

\* assignTask, up to task.save(): Task.findById, User.findById, the role check
AssignFind(r, t, workerId) ==
    /\ FreeSlot(r)
    /\ LET rq == [IdleReq EXCEPT !.op = "assignTask", !.caller = "admin", !.task = t,
                                 !.bworker = workerId, !.tdoc = tasks[t]]
       IN req' = [req EXCEPT ![r] =
                    IF tasks[t] = NoTask THEN Done(rq, "notfound")
                    ELSE IF workerId \notin Users \/ Role(workerId) # "worker"
                         THEN Done(rq, "notfound")
                    ELSE [rq EXCEPT !.pc = "assignSave"]]
    /\ UNCHANGED <<inventory, taskVars>>

\* the notification dispatcher (services/notificationService.js): a
\* notification is sent, or the dispatcher fails and its failure reaches the
\* caller that awaits it
NotifyOutcomes == {"sent", "failed"}

\* assignTask: task.worker = workerId; task.status = "assigned"; task.save(),
\* then await notifyTaskAssignment(...) inside the handler's try block and
\* the response: a failure of the dispatcher is answered in the catch block
\* (500)
AssignSave(r) ==
    LET rq == req[r] IN
    /\ rq.pc = "assignSave"
    /\ tasks' = [tasks EXCEPT ![rq.task] =
                   SaveTask(@, rq.tdoc,
                            PreSave([rq.tdoc EXCEPT !.worker = rq.bworker,
                                                    !.status = "assigned"]))]
    /\ \E outcome \in NotifyOutcomes :
           req' = [req EXCEPT ![r] =
                     Done(rq, IF outcome = "sent" THEN "ok" ELSE "error")]
    /\ UNCHANGED <<envVars, siteVars, inventory, counters, sections, issued, completions>>

\* the rejected branch without its test of the stored status
AfterCompletedAlways(rq) ==
    IF rq.bstatus = "rejected"
    THEN [rq EXCEPT !.pc = "siteFind"]
    ELSE [rq EXCEPT !.pc = "write"]

\* updateTask after the rejected-branch test of line 727
AfterCompleted(rq) ==
    IF rq.bstatus = "rejected" /\ rq.tdoc.status # "rejected"
    THEN [rq EXCEPT !.pc = "siteFind"]
    ELSE [rq EXCEPT !.pc = "write"]

\* the record rec with its field f set to v
SetField(rec, f, v) == [g \in DOMAIN rec \cup {f} |-> IF g = f THEN v ELSE rec[g]]

\* updateTask at the completed-branch test of line 697, which sets
\* req.body.completedAt = new Date()
AfterAssigned(rq) ==
    IF rq.bstatus = "completed" /\ rq.tdoc.status # "completed"
    THEN [rq EXCEPT !.pc = "incClient", !.body = SetField(@, "completedAt", now)]
    ELSE AfterCompleted(rq)

\* updateTask at the assignment test of line 682
AfterAuthorized(rq) ==
    IF rq.bworker # None /\ rq.tdoc.worker = None
    THEN IF Len(rq.tdoc.materials) > 0
         THEN [rq EXCEPT !.pc = "matFind"]
         ELSE AfterAssigned([rq EXCEPT !.bstatus = "assigned"])
    ELSE AfterAssigned(rq)

\* updateTask: Task.findById, the not-found and the authorization checks;
\* body holds the fields of req.body other than status and worker
UpdFind(r, caller, t, bstatus, bworker, body) ==
    /\ FreeSlot(r)
    /\ (bstatus = "completed" /\ tasks[t] # NoTask /\ tasks[t].status # "completed")
           => completions[t] < MaxCount
    /\ LET rq == [IdleReq EXCEPT !.op = "updateTask", !.caller = caller, !.task = t,
                                 !.bstatus = bstatus, !.bworker = bworker,
                                 !.body = body, !.tdoc = tasks[t]]
       IN req' = [req EXCEPT ![r] =
                    IF tasks[t] = NoTask THEN Done(rq, "notfound")
                    ELSE IF Role(caller) = "worker" /\ tasks[t].worker # caller
                         THEN Done(rq, "forbidden")
                    ELSE AfterAuthorized(rq)]
    /\ UNCHANGED <<inventory, taskVars>>

\* updateTask: Inventory.findById(material.item) of the next material (every
\* material names an item of the inventory)
UpdMatFind(r) ==
    LET rq == req[r]
        m == rq.tdoc.materials[rq.mi + 1]
    IN
    /\ rq.pc = "matFind"
    /\ req' = [req EXCEPT ![r] = [rq EXCEPT !.pc = "matDeduct", !.item = m.item,
                                            !.amt = m.quantity,
                                            !.idoc = inventory[m.item]]]
    /\ UNCHANGED <<inventory, taskVars>>

\* updateTask: inventoryItem.deduct(material.quantity); a throw ends the
\* request in the catch block (500), the last material sets
\* req.body.status = "assigned"
UpdMatDeduct(r) ==
    LET rq == req[r]
        d == Deduct(rq.idoc, rq.amt)
        saved == [rq EXCEPT !.mi = rq.mi + 1]
    IN
    /\ rq.pc = "matDeduct"
    /\ IF ~d.ok
       THEN /\ req' = [req EXCEPT ![r] = Done(rq, "insufficient")]
            /\ UNCHANGED <<inventory, issued>>
       ELSE IF ~QuantityValid(d.current)
       THEN /\ req' = [req EXCEPT ![r] = Done(rq, "invalid")]
            /\ UNCHANGED <<inventory, issued>>
       ELSE /\ inventory' = InventorySave(inventory, rq.item, d.current)
            /\ issued' = [issued EXCEPT ![rq.item] = @ + rq.amt]
            /\ req' = [req EXCEPT ![r] =
                         IF saved.mi < Len(rq.tdoc.materials)
                         THEN [saved EXCEPT !.pc = "matFind"]
                         ELSE AfterAssigned([saved EXCEPT !.bstatus = "assigned"])]
    /\ UNCHANGED <<envVars, siteVars, tasks, counters, sections, completions>>

\* updateTask: Client.findByIdAndUpdate(task.client, $inc completedTasks)
UpdIncClient(r) ==
    LET rq == req[r] IN
    /\ rq.pc = "incClient"
    /\ clientCompleted' = clientCompleted + 1
    /\ req' = [req EXCEPT ![r] =
                 [rq EXCEPT !.pc = IF rq.tdoc.worker # None THEN "incWorker" ELSE "incSite"]]
    /\ UNCHANGED <<envVars, siteVars, inventory, tasks, workerCompleted, siteCompleted, sections,
                   issued, completions>>

\* updateTask: User.findByIdAndUpdate(task.worker, $inc workerDetails.completedTasks)
UpdIncWorker(r) ==
    LET rq == req[r] IN
    /\ rq.pc = "incWorker"
    /\ workerCompleted' = [workerCompleted EXCEPT ![rq.tdoc.worker] = @ + 1]
    /\ req' = [req EXCEPT ![r] = [rq EXCEPT !.pc = "incSite"]]
    /\ UNCHANGED <<envVars, siteVars, inventory, tasks, clientCompleted, siteCompleted, sections,
                   issued, completions>>

\* updateTask: Site.findByIdAndUpdate(task.site, $inc completedTasks, lastVisit)
UpdIncSite(r) ==
    LET rq == req[r] IN
    /\ rq.pc = "incSite"
    /\ siteCompleted' = siteCompleted + 1
    /\ req' = [req EXCEPT ![r] = [rq EXCEPT !.pc = "siteFind"]]
    /\ UNCHANGED <<envVars, siteVars, inventory, tasks, clientCompleted, workerCompleted, sections,
                   issued, completions>>

\* updateTask after the loop over task.sections
AfterSections(rq) ==
    IF rq.bstatus = "completed" THEN AfterCompleted(rq) ELSE [rq EXCEPT !.pc = "write"]

\* updateTask: Site.findById(task.site) before the loop over task.sections
UpdSiteFind(r) ==
    LET rq == req[r] IN
    /\ rq.pc = "siteFind"
    /\ req' = [req EXCEPT ![r] =
                 IF Len(rq.tdoc.sections) > 0
                 THEN [rq EXCEPT !.pc = "secSave", !.ssecs = DOMAIN sections,
                                 !.ssum = sections, !.sver = siteVersion]
                 ELSE AfterSections(rq)]
    /\ UNCHANGED <<inventory, taskVars>>

\* siteSchema.methods.updateSectionLastTask: the fields of the section of the
\* loaded site are set and the site saved.  A field set to the value the
\* loaded copy holds is not marked modified, and the save writes the
\* modified paths only (lastTaskDate, the time of the call, is always one)
UpdateSectionLastTask(secs, loaded, sectionId, taskStatus, taskId) ==
    IF sectionId \notin DOMAIN secs THEN secs
    ELSE [secs EXCEPT ![sectionId] =
            [lastTaskStatus |-> IF loaded[sectionId].lastTaskStatus # taskStatus
                                THEN taskStatus ELSE @.lastTaskStatus,
             lastTaskId |-> IF loaded[sectionId].lastTaskId # taskId
                            THEN taskId ELSE @.lastTaskId]]

\* updateTask: site.updateSectionLastTask(sectionId, status, task._id) of the
\* next section.  A section the loaded site does not hold is passed over; the
\* save sets the fields of the section by its position where the site's __v
\* is the loaded one, and a VersionError ends the request in the catch block
UpdSecSave(r) ==
    LET rq == req[r]
        sectionId == rq.tdoc.sections[rq.si + 1]
        saved == [rq EXCEPT !.si = rq.si + 1,
                            !.ssum = IF sectionId \in rq.ssecs
                                     THEN [@ EXCEPT ![sectionId] =
                                             [lastTaskStatus |-> rq.bstatus,
                                              lastTaskId |-> rq.task]]
                                     ELSE @]
    IN
    /\ rq.pc = "secSave"
    /\ IF sectionId \in rq.ssecs /\ siteVersion # rq.sver
       THEN /\ req' = [req EXCEPT ![r] = Done(rq, "error")]
            /\ UNCHANGED sections
       ELSE /\ sections' = IF sectionId \in rq.ssecs
                           THEN UpdateSectionLastTask(sections, rq.ssum, sectionId,
                                                      rq.bstatus, rq.task)
                           ELSE sections
            /\ req' = [req EXCEPT ![r] =
                         IF saved.si < Len(rq.tdoc.sections)
                         THEN saved
                         ELSE AfterSections(saved)]
    /\ UNCHANGED <<envVars, siteVars, inventory, tasks, counters, issued, completions>>

\* a cost object as a reader gets it: a field it lacks has its default
CostView(c) == [g \in DOMAIN DefaultCost |-> IF g \in DOMAIN c THEN c[g] ELSE DefaultCost[g]]

\* the validators of findByIdAndUpdate with runValidators: the enums of
\* status and priority (no validator looks at sections or cost)
BodyValid(bstatus, body) ==
    /\ bstatus # None => bstatus \in Statuses
    /\ "priority" \in DOMAIN body => body.priority \in Priorities

\* Task.findByIdAndUpdate(id, req.body): the fields the body holds are set,
\* a nested object as a whole; no save hook runs
ApplyBody(doc, bstatus, bworker, body) ==
    [doc EXCEPT !.status = IF bstatus # None THEN bstatus ELSE @,
                !.worker = IF bworker # None THEN bworker ELSE @,
                !.sections = IF "sections" \in DOMAIN body THEN body.sections ELSE @,
                !.cost = IF "cost" \in DOMAIN body THEN CostView(body.cost) ELSE @,
                !.priority = IF "priority" \in DOMAIN body THEN body.priority ELSE @,
                !.completedAt = IF "completedAt" \in DOMAIN body
                                THEN body.completedAt ELSE @]

\* a request that moves the task it loaded to "completed"
Completes(rq) ==
    /\ rq.tdoc # NoTask
    /\ rq.tdoc.status # "completed"
    /\ \/ rq.op = "completeTask"
       \/ rq.op = "updateTask" /\ rq.bstatus = "completed"

\* updateTask: Task.findByIdAndUpdate and the response; a validation error
\* is thrown before anything is written and answered in the catch block (500)
UpdWrite(r) ==
    LET rq == req[r] IN
    /\ rq.pc = "write"
    /\ IF BodyValid(rq.bstatus, rq.body)
       THEN /\ tasks' = [tasks EXCEPT ![rq.task] =
                              ApplyBody(@, rq.bstatus, rq.bworker, rq.body)]
            /\ completions' = IF Completes(rq)
                              THEN [completions EXCEPT ![rq.task] = @ + 1]
                              ELSE completions
            /\ req' = [req EXCEPT ![r] = Done(rq, "ok")]
       ELSE /\ req' = [req EXCEPT ![r] = Done(rq, "invalid")]
            /\ UNCHANGED <<tasks, completions>>
    /\ UNCHANGED <<envVars, siteVars, inventory, counters, sections, issued>>

\* startTask and completeTask up to their authorization check: Task.findById,
\* then task.worker.toString() !== req.user.id (a TypeError, answered 500,
\* when the task has no worker)
WorkerGate(rq) ==
    IF rq.tdoc = NoTask THEN Done(rq, "notfound")
    ELSE IF rq.tdoc.worker = None THEN Done(rq, "error")
    ELSE IF rq.tdoc.worker # rq.caller THEN Done(rq, "forbidden")
    ELSE rq

\* startTask, up to task.save()
StartFind(r, caller, t) ==
    /\ FreeSlot(r)
    /\ LET rq == WorkerGate([IdleReq EXCEPT !.op = "startTask", !.caller = caller,
                                            !.task = t, !.tdoc = tasks[t]])
       IN req' = [req EXCEPT ![r] =
                    IF rq.pc = "done" THEN rq ELSE [rq EXCEPT !.pc = "startSave"]]
    /\ UNCHANGED <<inventory, taskVars>>

\* startTask: task.status = "in-progress"; task.startedAt = new Date();
\* task.save()
StartSave(r) ==
    LET rq == req[r] IN
    /\ rq.pc = "startSave"
    /\ tasks' = [tasks EXCEPT ![rq.task] =
                   SaveTask(@, rq.tdoc,
                            PreSave([rq.tdoc EXCEPT !.status = "in-progress",
                                                    !.startedAt = now]))]
    /\ req' = [req EXCEPT ![r] = Done(rq, "ok")]
    /\ UNCHANGED <<envVars, siteVars, inventory, counters, sections, issued, completions>>

\* completeTask's test of the loaded status
AlreadyCompleted(status) == status = "completed"

\* completeTask, up to task.save()
CompleteFind(r, caller, t) ==
    /\ FreeSlot(r)
    /\ (tasks[t] # NoTask /\ tasks[t].status # "completed") => completions[t] < MaxCount
    /\ LET rq == WorkerGate([IdleReq EXCEPT !.op = "completeTask", !.caller = caller,
                                            !.task = t, !.tdoc = tasks[t]])
       IN req' = [req EXCEPT ![r] =
                    IF rq.pc = "done" THEN rq
                    ELSE IF AlreadyCompleted(rq.tdoc.status) THEN Done(rq, "conflict")
                    ELSE [rq EXCEPT !.pc = "completeSave"]]
    /\ UNCHANGED <<inventory, taskVars>>

\* completeTask: task.status = "completed"; task.completedAt = new Date();
\* task.save()
CompleteSave(r) ==
    LET rq == req[r] IN
    /\ rq.pc = "completeSave"
    /\ tasks' = [tasks EXCEPT ![rq.task] =
                   SaveTask(@, rq.tdoc,
                            PreSave([rq.tdoc EXCEPT !.status = "completed",
                                                    !.completedAt = now]))]
    /\ completions' = [completions EXCEPT ![rq.task] = @ + 1]
    /\ req' = [req EXCEPT ![r] = Done(rq, "ok")]
    /\ UNCHANGED <<envVars, siteVars, inventory, counters, sections, issued>>

\* time passes: the clock moves on by one step
Tick ==
    /\ now < MaxTime
    /\ now' = now + 1
    /\ UNCHANGED <<inventory, req, tasks, counters, sections, issued, completions,
                   siteVars, uploaded>>

\* the response is sent and the request is over
Respond(r) ==
    /\ req[r].pc = "done"
    /\ req' = [req EXCEPT ![r] = IdleReq]
    /\ UNCHANGED <<inventory, taskVars>>

\* ---------------------------------------------------------- client feedback

\* the image uploadSingle stores for a feedback submission that carries a file
FeedbackImage == "f1"

\* parseInt of a text that does not start with a number (no rating is negative)
NaN == 0 - 1

\* feedback.imageNumber when it is null
NoNumber == 0

\* the texts a request body gives for a number
BodyNumbers == {"0", "1", "5", "6", "x"}

\* parseInt(v): of a numeral its number, of any other text and of undefined NaN
ParseInt(v) ==
    CASE v = "0" -> 0
      [] v = "1" -> 1
      [] v = "5" -> 5
      [] v = "6" -> 6
      [] OTHER -> NaN

\* the schema without the bounds of feedback.rating
RatingUnchecked(v) == v # NaN

\* taskSchema.feedback.rating: a Number with min: 1 and max: 5
RatingValid(v) == v # NaN /\ v >= 1 /\ v <= 5

\* submitFeedback's feedbackData: image is set when a file was uploaded,
\* isSatisfiedOnly is never set
FeedbackData(rq) ==
    LET data == [rating |-> ParseInt(rq.rating),
                 comment |-> IF rq.comment # None THEN rq.comment ELSE "",
                 imageNumber |-> IF rq.imageNumber # None
                                 THEN ParseInt(rq.imageNumber) ELSE NoNumber]
    IN IF rq.file THEN data @@ [image |-> FeedbackImage] ELSE data

\* markSatisfied's record
SatisfiedData == [rating |-> 5, comment |-> "satisfied", isSatisfiedOnly |-> TRUE]

\* a nested path set by merging: the fields the new value lacks keep their
\* earlier values
SetNestedMerge(old, new) == IF old = NoFeedback THEN new ELSE new @@ old

\* task.feedback = value: the nested path is replaced as a whole, a field the
\* value lacks is cleared
SetNested(old, new) == new

\* a feedback record as a reader gets it: isSatisfiedOnly has default: false
FeedbackView(fb) ==
    IF fb = NoFeedback \/ "isSatisfiedOnly" \in DOMAIN fb THEN fb
    ELSE fb @@ [isSatisfiedOnly |-> FALSE]

\* the status test of submitFeedback and markSatisfied, without its negation
FeedbackAnyStatus(status) == TRUE

\* submitFeedback and markSatisfied accept a task whose status is "completed"
FeedbackOpen(status) == status = "completed"

\* submitFeedback and markSatisfied, up to task.save(): Task.findById, the
\* not-found, status and client checks
FeedbackFind(r, op, caller, t, rating, comment, imageNumber, file) ==
    /\ FreeSlot(r)
    /\ LET rq == [IdleReq EXCEPT !.op = op, !.caller = caller, !.task = t,
                                 !.rating = rating, !.comment = comment,
                                 !.imageNumber = imageNumber, !.file = file,
                                 !.tdoc = tasks[t]]
       IN req' = [req EXCEPT ![r] =
                    IF tasks[t] = NoTask THEN Done(rq, "notfound")
                    ELSE IF ~FeedbackOpen(tasks[t].status) THEN Done(rq, "validation")
                    ELSE IF Role(caller) = "client" /\ tasks[t].client # caller
                         THEN Done(rq, "forbidden")
                    ELSE [rq EXCEPT !.pc = "feedbackSave"]]
    /\ UNCHANGED <<inventory, taskVars>>

\* submitFeedback and markSatisfied: task.feedback = ...; task.save(), whose
\* validators refuse a rating outside 1..5 (answered 500)
FeedbackSave(r) ==
    LET rq == req[r]
        value == IF rq.op = "markSatisfied" THEN SatisfiedData ELSE FeedbackData(rq)
    IN
    /\ rq.pc = "feedbackSave"
    /\ IF RatingValid(value.rating)
       THEN /\ tasks' = [tasks EXCEPT ![rq.task] =
                              [SaveTask(@, rq.tdoc, PreSave(rq.tdoc))
                                 EXCEPT !.feedback = SetNested(@, value)]]
            /\ req' = [req EXCEPT ![r] = [Done(rq, "ok") EXCEPT !.out = value]]
       ELSE /\ req' = [req EXCEPT ![r] = Done(rq, "error")]
            /\ UNCHANGED tasks
    /\ UNCHANGED <<envVars, siteVars, inventory, counters, sections, issued, completions>>

\* ------------------------------------------------------------ reading tasks

\* getTasks' query on the worker field: the caller's id for a worker, replaced
\* by the worker filter of the query string when there is one
WorkerQuery(caller, worker) ==
    IF worker # None THEN worker
    ELSE IF Role(caller) = "worker" THEN caller
    ELSE None

\* Task.find(query): the ids of the tasks the query matches
FindTasks(status, worker) ==
    {t \in TaskIds :
        /\ tasks[t] # NoTask
        /\ status # None => tasks[t].status = status
        /\ worker # None => tasks[t].worker = worker}

\* getTasks
GetTasks(r, caller, status, worker) ==
    /\ FreeSlot(r)
    /\ req' = [req EXCEPT ![r] =
                 [Done([IdleReq EXCEPT !.op = "getTasks", !.caller = caller,
                                       !.bstatus = status, !.bworker = worker], "ok")
                    EXCEPT !.out = FindTasks(status, WorkerQuery(caller, worker))]]
    /\ UNCHANGED <<inventory, taskVars>>

\* the paths of taskSchema among those a handler sets on a task document
TaskSchemaPaths ==
    {"status", "worker", "materials", "sections", "client", "feedback", "images",
     "cost", "startedAt", "completedAt", "actualDuration", "priority", "v"}

\* the document a Task model keeps of the object it is given: the schema is
\* strict, a field that is no path of the schema is dropped
StrictCast(doc) == [f \in DOMAIN doc \cap TaskSchemaPaths |-> doc[f]]

\* task.referenceImages as a reader of the document finds it
StoredReferenceImages(doc) ==
    IF "referenceImages" \in DOMAIN doc THEN doc.referenceImages ELSE <<>>

RECURSIVE LiveReferenceImages(_, _)
\* the legacy getTask's loop: the reference images the site's sections hold
\* now, section by section in the order of task.sections; a section the site
\* no longer has is skipped
LiveReferenceImages(secs, stored) ==
    IF secs = <<>> THEN <<>>
    ELSE (IF Head(secs) \in DOMAIN stored THEN stored[Head(secs)] ELSE <<>>)
             \o LiveReferenceImages(Tail(secs), stored)

\* getTask's authorization check: an admin, or the task's worker
MayView(caller, worker) ==
    Role(caller) = "admin" \/ (worker # None /\ worker = caller)

\* getTask up to its authorization check: Task.findById (of the worker field
\* alone in the variant that answers the stored snapshot)
GetTaskFind(r, caller, t) ==
    /\ FreeSlot(r)
    /\ LET rq == [IdleReq EXCEPT !.op = "getTask", !.caller = caller, !.task = t,
                                 !.tdoc = tasks[t]]
       IN req' = [req EXCEPT ![r] =
                    IF tasks[t] = NoTask THEN Done(rq, "notfound")
                    ELSE IF ~MayView(caller, tasks[t].worker) THEN Done(rq, "forbidden")
                    ELSE [rq EXCEPT !.pc = "getRead"]]
    /\ UNCHANGED <<inventory, taskVars>>

\* getTask's second read and its response: the snapshot variant reads the
\* task again and answers it as stored; the legacy variant reads the site and
\* answers the task it loaded with the sections' reference images of now
GetTaskRead(r) ==
    LET rq == req[r]
        data == IF controller = "snapshot"
                THEN [task |-> tasks[rq.task],
                      referenceImages |-> StoredReferenceImages(tasks[rq.task])]
                ELSE [task |-> rq.tdoc,
                      referenceImages |->
                          LiveReferenceImages(rq.tdoc.sections, refImages)]
    IN
    /\ rq.pc = "getRead"
    /\ req' = [req EXCEPT ![r] = [Done(rq, "ok") EXCEPT !.out = data]]
    /\ UNCHANGED <<inventory, taskVars>>

\* ------------------------------------------------------------ createTask

Range(seq) == {seq[k] : k \in 1..Len(seq)}

\* a site id that names no site, a section id that names no section of the site
NoSuchSite == "site0"
NoSuchSection == "s9"

\* site.sections: the ids of the sections the site holds now, in its order
CurrentSections == SelectSeq(SiteSections, LAMBDA id : id \in DOMAIN sections)

\* createTask without its section check
InvalidSectionsNone(bsections) == <<>>

\* createTask's invalidSections: the supplied ids that are no section of the site
InvalidSections(bsections) ==
    SelectSeq(bsections, LAMBDA id : id \notin DOMAIN sections)

\* createTask's validSections: the site's sections, in the site's order, whose
\* id was supplied
ValidSections(bsections) ==
    SelectSeq(CurrentSections, LAMBDA id : id \in Range(bsections))

\* the copy of one section's reference images, each tagged originalSectionId
CopyImages(imgs, sectionId) ==
    [k \in 1..Len(imgs) |-> [image |-> imgs[k], originalSectionId |-> sectionId]]

RECURSIVE SnapshotImages(_, _)
\* createTask's referenceImages: the copies, section after section
SnapshotImages(secs, stored) ==
    IF secs = <<>> THEN <<>>
    ELSE CopyImages(stored[Head(secs)], Head(secs))
             \o SnapshotImages(Tail(secs), stored)

\* the required-fields check: the snapshot controller asks for site, sections,
\* client and worker (title and description are given), the legacy one for a
\* site and at least one section
HasRequired(bsite, bsections, bclient, bworker) ==
    IF controller = "snapshot"
    THEN bsite # None /\ bclient # None /\ bworker # None
    ELSE bsite # None /\ Len(bsections) > 0

\* the client of the task to be created: the legacy controller fills a missing
\* client from the site
TaskClient(bclient) ==
    IF controller = "legacy" /\ bclient = None THEN SiteClient ELSE bclient

\* createTask up to Task.create: the required fields, Site.findById, the
\* section check, the collected reference images
CrtFind(r, bsite, bsections, bclient, bworker) ==
    /\ FreeSlot(r)
    /\ LET rq == [IdleReq EXCEPT !.op = "createTask", !.caller = "admin",
                                 !.bsite = bsite, !.bsections = bsections,
                                 !.bclient = bclient, !.bworker = bworker]
       IN req' = [req EXCEPT ![r] =
                    IF ~HasRequired(bsite, bsections, bclient, bworker)
                    THEN Done(rq, "validation")
                    ELSE IF bsite # TheSite THEN Done(rq, "notfound")
                    ELSE IF Len(InvalidSections(bsections)) > 0 THEN Done(rq, "notfound")
                    ELSE [rq EXCEPT !.pc = "crtStore",
                                    !.valid = ValidSections(bsections),
                                    !.snap = IF controller = "snapshot"
                                             THEN SnapshotImages(ValidSections(bsections),
                                                                 refImages)
                                             ELSE <<>>]]
    /\ UNCHANGED <<inventory, taskVars>>

\* the object createTask hands to Task.create: the snapshot controller names
\* the fields, referenceImages among them; the legacy one passes the body
NewTask(rq) ==
    LET base == [status |-> "pending", worker |-> rq.bworker, materials |-> <<>>,
                 sections |-> IF controller = "snapshot"
                              THEN rq.valid ELSE rq.bsections,
                 client |-> TaskClient(rq.bclient), feedback |-> NoFeedback,
                 images |-> [before |-> <<>>, after |-> <<>>],
                 cost |-> DefaultCost, startedAt |-> NoDate, completedAt |-> NoDate,
                 actualDuration |-> 0, priority |-> "medium", v |-> 0]
    IN IF controller = "snapshot" THEN base @@ [referenceImages |-> rq.snap] ELSE base

\* createTask: Task.create and the read of the created task for the response;
\* the legacy controller goes on to the totalTasks counters
CrtStore(r) ==
    LET rq == req[r] IN
    /\ rq.pc = "crtStore"
    /\ \E t \in NewTaskId(TaskIds) :
           /\ tasks' = [tasks EXCEPT ![t] = PreSave(StrictCast(NewTask(rq)))]
           /\ req' = [req EXCEPT ![r] =
                        IF controller = "snapshot"
                        THEN [Done(rq, "ok") EXCEPT !.task = t]
                        ELSE [rq EXCEPT !.pc = "crtIncClient", !.task = t]]
    /\ UNCHANGED <<envVars, siteVars, inventory, counters, sections, issued, completions>>

\* legacy createTask: Client.findByIdAndUpdate(task.client, $inc totalTasks)
CrtIncClient(r) ==
    LET rq == req[r] IN
    /\ rq.pc = "crtIncClient"
    /\ clientTotal' = [clientTotal EXCEPT ![TaskClient(rq.bclient)] = @ + 1]
    /\ req' = [req EXCEPT ![r] = [rq EXCEPT !.pc = "crtIncSite"]]
    /\ UNCHANGED <<envVars, coverImage, inventory, tasks, counters, sections, issued,
                   completions,
                   refImages, siteTotal, siteVersion, destroyed, controller>>

\* legacy createTask: Site.findByIdAndUpdate(task.site, $inc totalTasks)
CrtIncSite(r) ==
    LET rq == req[r] IN
    /\ rq.pc = "crtIncSite"
    /\ siteTotal' = siteTotal + 1
    /\ req' = [req EXCEPT ![r] = Done(rq, "ok")]
    /\ UNCHANGED <<envVars, coverImage, inventory, tasks, counters, sections, issued,
                   completions,
                   refImages, clientTotal, siteVersion, destroyed, controller>>

\* ------------------------------------------- a section's reference images

\* position of image id img in imgs, 0 when it is not there (findIndex)
FindIndex(imgs, img) ==
    IF \E k \in 1..Len(imgs) : imgs[k] = img
    THEN CHOOSE k \in 1..Len(imgs) : imgs[k] = img /\ \A j \in 1..(k - 1) : imgs[j] # img
    ELSE 0

\* imgs.splice(k, 1)
Splice(imgs, k) == SubSeq(imgs, 1, k - 1) \o SubSeq(imgs, k + 1, Len(imgs))

\* deleteImage's entity types
EntityTypes == {"site", "section", "task", "feedback"}

\* deleteImage up to the external deletion: cloudinaryId, entityType, entityId
\* (a site's or a task's id) and imageType are required, the entity type is
\* one of the four, a section needs its sectionId
DelEntry(r, caller, cloudinaryId, entityType, siteId, taskId, sectionId, imageId, imageType) ==
    /\ FreeSlot(r)
    /\ LET rq == [IdleReq EXCEPT !.op = "deleteImage", !.caller = caller,
                                 !.storage = cloudinaryId, !.etype = entityType,
                                 !.bsite = siteId, !.task = taskId,
                                 !.section = sectionId, !.image = imageId,
                                 !.itype = imageType]
       IN req' = [req EXCEPT ![r] =
                    IF \/ cloudinaryId = None \/ entityType = None
                       \/ (siteId = None /\ taskId = 0) \/ imageType = None
                    THEN Done(rq, "validation")
                    ELSE IF entityType \notin EntityTypes THEN Done(rq, "validation")
                    ELSE IF entityType = "section" /\ sectionId = None
                         THEN Done(rq, "validation")
                    ELSE [rq EXCEPT !.pc = "destroy"]]
    /\ UNCHANGED <<inventory, taskVars>>

\* deleteImage with entityType 'section', up to the external deletion: the
\* required fields are given
DelSecEntry(r, caller, cloudinaryId, siteId, sectionId, imageId) ==
    DelEntry(r, caller, cloudinaryId, "section", siteId, 0, sectionId, imageId,
             "reference")

\* deleteImage: cloudinary.uploader.destroy, whose failure is caught and
\* logged, then the switch on entityType
DelDestroy(r) ==
    LET rq == req[r] IN
    /\ rq.pc = "destroy"
    /\ \E ok \in BOOLEAN :
           /\ destroyed' = IF ok THEN destroyed \cup {rq.storage} ELSE destroyed
           /\ req' = [req EXCEPT ![r] =
                        [rq EXCEPT !.pc = IF rq.etype = "section" THEN "secFind"
                                          ELSE "entityFind",
                                   !.extok = ok]]
    /\ UNCHANGED <<envVars, coverImage, inventory, tasks, counters, sections, issued,
                   completions,
                   refImages, clientTotal, siteTotal, siteVersion, controller>>

\* deleteSectionImage up to site.save(): Site.findById, the section, the image
DelSecFind(r) ==
    LET rq == req[r] IN
    /\ rq.pc = "secFind"
    /\ req' = [req EXCEPT ![r] =
                 IF rq.bsite # TheSite THEN Done(rq, "notfound")
                 ELSE IF rq.section \notin DOMAIN refImages THEN Done(rq, "notfound")
                 ELSE IF FindIndex(refImages[rq.section], rq.image) = 0
                      THEN Done(rq, "notfound")
                 ELSE [rq EXCEPT !.pc = "secImgSave", !.sdoc = refImages[rq.section],
                                 !.sver = siteVersion]]
    /\ UNCHANGED <<inventory, taskVars>>

\* deleteSectionImage: section.referenceImages.splice(imageIndex, 1);
\* site.save(), which sets the whole array where the site's __v is the loaded
\* one and increments __v; a VersionError is answered as a failure (404)
DelSecSave(r) ==
    LET rq == req[r] IN
    /\ rq.pc = "secImgSave"
    /\ IF siteVersion = rq.sver
       THEN /\ refImages' = [refImages EXCEPT ![rq.section] =
                               Splice(rq.sdoc, FindIndex(rq.sdoc, rq.image))]
            /\ siteVersion' = siteVersion + 1
            /\ req' = [req EXCEPT ![r] = Done(rq, "ok")]
       ELSE /\ req' = [req EXCEPT ![r] = Done(rq, "notfound")]
            /\ UNCHANGED <<refImages, siteVersion>>
    /\ UNCHANGED <<envVars, coverImage, inventory, tasks, counters, sections, issued,
                   completions,
                   clientTotal, siteTotal, destroyed, controller>>

\* site.updateSection(sectionId, { referenceImages }) on the site as loaded just
\* before: the section is given one more reference image and the site saved
AddSectionImage(r, sectionId, img) ==
    /\ FreeSlot(r)
    /\ siteVersion < MaxEdits
    /\ sectionId \in DOMAIN refImages
    /\ \A s \in DOMAIN refImages : img \notin Range(refImages[s])
    /\ refImages' = [refImages EXCEPT ![sectionId] = Append(@, img)]
    /\ siteVersion' = siteVersion + 1
    /\ req' = [req EXCEPT ![r] =
                 Done([IdleReq EXCEPT !.op = "updateSection", !.caller = "admin",
                                      !.section = sectionId, !.image = img], "ok")]
    /\ UNCHANGED <<envVars, coverImage, inventory, tasks, counters, sections, issued,
                   completions,
                   clientTotal, siteTotal, destroyed, controller>>

\* ------------------------------------------------- the media of a task

\* the two slots of task.images
Slots == {"before", "after"}

\* an attachment of a task: _id, cloudinaryId, isVisibleToClient (an uploaded
\* attachment is given the storage id of its file as its id)
Attachment(id, cloudinaryId, visible) ==
    [id |-> id, cloudinaryId |-> cloudinaryId, isVisibleToClient |-> visible]

\* authorize(...roles): the caller's role is one of the route's roles
Authorize(caller, roles) == Role(caller) \in roles

\* the handlers that let a worker act on the worker's own task only
OwnTaskOnly(caller, doc) == Role(caller) = "worker" => doc.worker = caller

\* position of the attachment with id `id` in imgs, 0 when there is none
IndexOfId(imgs, id) ==
    IF \E k \in 1..Len(imgs) : imgs[k].id = id
    THEN CHOOSE k \in 1..Len(imgs) :
             imgs[k].id = id /\ \A j \in 1..(k - 1) : imgs[j].id # id
    ELSE 0

\* a task.save() that changes no path itself: the paths the pre-save hook
\* changed are written
Hooked(stored, loaded) == SaveTask(stored, loaded, PreSave(loaded))

\* uploadTaskImages' flag: const { isVisibleToClient = true } = req.body, then
\* isVisibleToClient === "true" || isVisibleToClient === true
UploadVisible(v) == IF v = None THEN TRUE ELSE v = "true"

\* uploadTaskImages' mediaObjects: one attachment per file, in file order
MediaObjects(files, v) ==
    [k \in 1..Len(files) |-> Attachment(files[k], files[k], UploadVisible(v))]

\* the new attachments put before the ones the slot holds
UnshiftAll(imgs, objs) == objs \o imgs

\* task.images[imageType].push(...mediaObjects), saved as a $push
PushAll(imgs, objs) == imgs \o objs

\* uploadTaskImages up to task.save(): the route's authorize('admin',
\* 'worker'), the files uploadMultiple has stored at the media host,
\* Task.findById, the ownership, slot and files checks
UploadFind(r, caller, t, imageType, files, v) ==
    /\ FreeSlot(r)
    /\ Range(files) \cap uploaded = {}
    /\ LET rq == [IdleReq EXCEPT !.op = "uploadTaskImages", !.caller = caller,
                                 !.task = t, !.itype = imageType, !.files = files,
                                 !.visible = v, !.tdoc = tasks[t]]
           allowed == Authorize(caller, {"admin", "worker"})
       IN /\ req' = [req EXCEPT ![r] =
                       IF ~allowed THEN Done(rq, "forbidden")
                       ELSE IF tasks[t] = NoTask THEN Done(rq, "notfound")
                       ELSE IF ~OwnTaskOnly(caller, tasks[t]) THEN Done(rq, "forbidden")
                       ELSE IF imageType \notin Slots THEN Done(rq, "validation")
                       ELSE IF Len(files) = 0 THEN Done(rq, "validation")
                       ELSE [rq EXCEPT !.pc = "uploadSave"]]
          /\ uploaded' = IF allowed THEN uploaded \cup Range(files) ELSE uploaded
    /\ UNCHANGED <<now, siteVars, inventory, tasks, counters, sections, issued,
                   completions>>

\* uploadTaskImages: the push and task.save(), which appends to the stored
\* array and increments __v
UploadSave(r) ==
    LET rq == req[r]
        objs == MediaObjects(rq.files, rq.visible)
    IN
    /\ rq.pc = "uploadSave"
    /\ tasks' = [tasks EXCEPT ![rq.task] =
                   [Hooked(@, rq.tdoc) EXCEPT
                      !.images[rq.itype] = PushAll(@, objs), !.v = @ + 1]]
    /\ req' = [req EXCEPT ![r] = [Done(rq, "ok") EXCEPT !.out = Len(objs)]]
    /\ UNCHANGED <<envVars, siteVars, inventory, counters, sections, issued, completions>>

\* a flag switched on whatever it was
ToggleOn(flag) == TRUE

\* toggleImageVisibility's new flag
Toggle(flag) == ~flag

\* toggleImageVisibility up to task.save(): the route's authorize('admin'),
\* Task.findById, the slot, the attachment
TogFind(r, caller, t, imageType, imageId) ==
    /\ FreeSlot(r)
    /\ LET rq == [IdleReq EXCEPT !.op = "toggleImageVisibility", !.caller = caller,
                                 !.task = t, !.itype = imageType, !.image = imageId,
                                 !.tdoc = tasks[t]]
       IN req' = [req EXCEPT ![r] =
                    IF ~Authorize(caller, {"admin"}) THEN Done(rq, "forbidden")
                    ELSE IF tasks[t] = NoTask THEN Done(rq, "notfound")
                    ELSE IF imageType \notin Slots THEN Done(rq, "validation")
                    ELSE IF IndexOfId(tasks[t].images[imageType], imageId) = 0
                         THEN Done(rq, "notfound")
                    ELSE [rq EXCEPT !.pc = "togSave"]]
    /\ UNCHANGED <<inventory, taskVars>>

\* toggleImageVisibility: the flag of the attachment is negated and the task
\* saved: the flag is set by the attachment's position where __v is the
\* loaded one; a VersionError is answered 500
TogSave(r) ==
    LET rq == req[r]
        k == IndexOfId(rq.tdoc.images[rq.itype], rq.image)
        flag == Toggle(rq.tdoc.images[rq.itype][k].isVisibleToClient)
    IN
    /\ rq.pc = "togSave"
    /\ IF tasks[rq.task].v = rq.tdoc.v
       THEN /\ tasks' = [tasks EXCEPT ![rq.task] =
                           [Hooked(@, rq.tdoc) EXCEPT
                              !.images[rq.itype][k].isVisibleToClient = flag]]
            /\ req' = [req EXCEPT ![r] = [Done(rq, "ok") EXCEPT !.out = flag]]
       ELSE /\ req' = [req EXCEPT ![r] = Done(rq, "error")]
            /\ UNCHANGED tasks
    /\ UNCHANGED <<envVars, siteVars, inventory, counters, sections, issued, completions>>

\* every attachment of the slot taken as named
MatchesAny(img, ids) == TRUE

\* bulkUpdateImageVisibility's test of an attachment: imageIds.includes(id)
Matches(img, ids) == img.id \in ids

\* bulkUpdateImageVisibility up to task.save(): the route's
\* authorize('admin'), Task.findById, the slot
BulkFind(r, caller, t, imageType, ids, isVisible) ==
    /\ FreeSlot(r)
    /\ LET rq == [IdleReq EXCEPT !.op = "bulkUpdateImageVisibility",
                                 !.caller = caller, !.task = t, !.itype = imageType,
                                 !.ids = ids, !.flag = isVisible, !.tdoc = tasks[t]]
       IN req' = [req EXCEPT ![r] =
                    IF ~Authorize(caller, {"admin"}) THEN Done(rq, "forbidden")
                    ELSE IF tasks[t] = NoTask THEN Done(rq, "notfound")
                    ELSE IF imageType \notin Slots THEN Done(rq, "validation")
                    ELSE [rq EXCEPT !.pc = "bulkSave"]]
    /\ UNCHANGED <<inventory, taskVars>>

\* bulkUpdateImageVisibility: the flag of every attachment the id list names
\* is set, the matches are counted, and the task is saved.  The save writes
\* the flags that differ from the loaded ones, each by its position where __v
\* is the loaded one (a VersionError is answered 500); when no flag differs
\* nothing of the array is written
BulkSave(r) ==
    LET rq == req[r]
        imgs == rq.tdoc.images[rq.itype]
        matched == {k \in 1..Len(imgs) : Matches(imgs[k], rq.ids)}
        changed == {k \in matched : imgs[k].isVisibleToClient # rq.flag}
        stored == tasks[rq.task]
    IN
    /\ rq.pc = "bulkSave"
    /\ IF changed # {} /\ stored.v # rq.tdoc.v
       THEN /\ req' = [req EXCEPT ![r] = Done(rq, "error")]
            /\ UNCHANGED tasks
       ELSE /\ tasks' = [tasks EXCEPT ![rq.task] =
                           [Hooked(@, rq.tdoc) EXCEPT !.images[rq.itype] =
                              [k \in 1..Len(@) |->
                                 IF k \in changed
                                 THEN [@[k] EXCEPT !.isVisibleToClient = rq.flag]
                                 ELSE @[k]]]]
            /\ req' = [req EXCEPT ![r] =
                         [Done(rq, "ok") EXCEPT !.out = Cardinality(matched)]]
    /\ UNCHANGED <<envVars, siteVars, inventory, counters, sections, issued, completions>>

\* a failure of the external deletion that ends the request
DestroyThrows(rq, ok) ==
    IF ok THEN [rq EXCEPT !.pc = "imgSave", !.extok = TRUE] ELSE Done(rq, "error")

\* deleteTaskImage after cloudinary.uploader.destroy: a failure is caught and
\* logged, the handler goes on to the removal
DestroyCaught(rq, ok) == [rq EXCEPT !.pc = "imgSave", !.extok = ok]

\* deleteTaskImage up to the external deletion: the route's authorize('admin',
\* 'worker'), Task.findById, the ownership check, the slot, the attachment
DelImgFind(r, caller, t, imageType, imageId) ==
    /\ FreeSlot(r)
    /\ LET rq == [IdleReq EXCEPT !.op = "deleteTaskImage", !.caller = caller,
                                 !.task = t, !.itype = imageType, !.image = imageId,
                                 !.tdoc = tasks[t]]
           k == IndexOfId(tasks[t].images[imageType], imageId)
       IN req' = [req EXCEPT ![r] =
                    IF ~Authorize(caller, {"admin", "worker"}) THEN Done(rq, "forbidden")
                    ELSE IF tasks[t] = NoTask THEN Done(rq, "notfound")
                    ELSE IF ~OwnTaskOnly(caller, tasks[t]) THEN Done(rq, "forbidden")
                    ELSE IF imageType \notin Slots THEN Done(rq, "validation")
                    ELSE IF k = 0 THEN Done(rq, "notfound")
                    ELSE IF tasks[t].images[imageType][k].cloudinaryId = None
                         THEN [rq EXCEPT !.pc = "imgSave"]
                    ELSE [rq EXCEPT !.pc = "imgDestroy",
                                    !.storage =
                                        tasks[t].images[imageType][k].cloudinaryId]]
    /\ UNCHANGED <<inventory, taskVars>>

\* deleteTaskImage: cloudinary.uploader.destroy(image.cloudinaryId), which
\* succeeds or fails
DelImgDestroy(r) ==
    LET rq == req[r] IN
    /\ rq.pc = "imgDestroy"
    /\ \E ok \in BOOLEAN :
           /\ destroyed' = IF ok THEN destroyed \cup {rq.storage} ELSE destroyed
           /\ req' = [req EXCEPT ![r] = DestroyCaught(rq, ok)]
    /\ UNCHANGED <<envVars, coverImage, inventory, tasks, counters, sections, issued,
                   completions, refImages, clientTotal, siteTotal, siteVersion,
                   controller>>

\* deleteTaskImage: imageArray.splice(imageIndex, 1); task.save(), which sets
\* the whole array where __v is the loaded one and increments __v; a
\* VersionError is answered 500
DelImgSave(r) ==
    LET rq == req[r]
        imgs == rq.tdoc.images[rq.itype]
    IN
    /\ rq.pc = "imgSave"
    /\ IF tasks[rq.task].v = rq.tdoc.v
       THEN /\ tasks' = [tasks EXCEPT ![rq.task] =
                           [Hooked(@, rq.tdoc) EXCEPT
                              !.images[rq.itype] = Splice(imgs, IndexOfId(imgs, rq.image)),
                              !.v = @ + 1]]
            /\ req' = [req EXCEPT ![r] = Done(rq, "ok")]
       ELSE /\ req' = [req EXCEPT ![r] =
                         Done(rq, IF rq.op = "deleteImage" THEN "notfound" ELSE "error")]
            /\ UNCHANGED tasks
    /\ UNCHANGED <<envVars, siteVars, inventory, counters, sections, issued, completions>>

\* deleteImage's helpers for a site, a task and a feedback, up to their save;
\* each answers success: false, which deleteImage turns into 404, when its
\* entity or its image is missing and when it throws.  deleteTaskImage reads
\* task.referenceImages for imageType 'reference': taskSchema declares no
\* such path, the value is undefined on every task document and findIndex
\* throws.
DelEntityFind(r) ==
    LET rq == req[r]
        doc == tasks[rq.task]
    IN
    /\ rq.pc = "entityFind"
    /\ req' = [req EXCEPT ![r] =
                 IF rq.etype = "site"
                 THEN IF rq.bsite # TheSite THEN Done(rq, "notfound")
                      ELSE IF rq.itype # "cover" THEN Done(rq, "notfound")
                      ELSE IF coverImage = None THEN Done(rq, "notfound")
                      ELSE [rq EXCEPT !.pc = "entitySave"]
                 ELSE IF rq.task \notin TaskIds THEN Done(rq, "notfound")
                 ELSE IF doc = NoTask THEN Done(rq, "notfound")
                 ELSE IF rq.etype = "feedback"
                      THEN IF doc.feedback = NoFeedback \/ "image" \notin DOMAIN doc.feedback
                           THEN Done(rq, "notfound")
                           ELSE [rq EXCEPT !.pc = "entitySave", !.tdoc = doc]
                 ELSE IF rq.itype \in Slots
                      THEN IF IndexOfId(doc.images[rq.itype], rq.image) = 0
                           THEN Done(rq, "notfound")
                           ELSE [rq EXCEPT !.pc = "imgSave", !.tdoc = doc]
                 ELSE Done(rq, "notfound")]
    /\ UNCHANGED <<inventory, taskVars>>

\* deleteSiteImage: site.coverImage = { url: undefined, cloudinaryId:
\* undefined }; site.save().  deleteFeedbackImage: task.feedback.image =
\* undefined; task.feedback.cloudinaryId = undefined; task.save().  Either
\* save writes the paths it cleared whatever the store holds by now.
DelEntitySave(r) ==
    LET rq == req[r] IN
    /\ rq.pc = "entitySave"
    /\ IF rq.etype = "site"
       THEN /\ coverImage' = None
            /\ UNCHANGED tasks
       ELSE /\ tasks' = [tasks EXCEPT ![rq.task] =
                           [Hooked(@, rq.tdoc) EXCEPT
                              !.feedback =
                                  IF @ = NoFeedback THEN @
                                  ELSE [f \in DOMAIN @ \ {"image"} |-> @[f]]]]
            /\ UNCHANGED coverImage
    /\ req' = [req EXCEPT ![r] = Done(rq, "ok")]
    /\ UNCHANGED <<envVars, inventory, counters, sections, issued, completions,
                   refImages, clientTotal, siteTotal, siteVersion, destroyed,
                   controller>>

\* siteSchema.methods.deleteSection on the site as loaded just before:
\* this.sections.pull(sectionId); this.save().  The section leaves the site
\* with its summary and its reference images and __v is incremented; no task
\* is read or written.  (Pulling an id the site does not hold changes nothing.)
DeleteSection(r, sectionId) ==
    /\ FreeSlot(r)
    /\ sectionId \in DOMAIN sections
    /\ sections' = [s \in DOMAIN sections \ {sectionId} |-> sections[s]]
    /\ refImages' = [s \in DOMAIN refImages \ {sectionId} |-> refImages[s]]
    /\ siteVersion' = siteVersion + 1
    /\ req' = [req EXCEPT ![r] =
                 Done([IdleReq EXCEPT !.op = "deleteSection", !.caller = "admin",
                                      !.section = sectionId], "ok")]
    /\ UNCHANGED <<envVars, coverImage, inventory, tasks, counters, issued, completions,
                   clientTotal, siteTotal, destroyed, controller>>

\* ------------------------------------------------- the inventory ledger

\* the amounts deduct and restock are called with: any number, negative too
Amounts == (0 - MaxAmt)..MaxAmt

\* the site as it is before any task: each section holds reference images, no
\* task is counted.  (The handlers of a specification that fixes the
\* controller are the same in both controllers.)
InitSite ==
    /\ refImages = [s \in SectionIds |-> IF s = "s1" THEN <<"a">> ELSE <<"b">>]
    /\ clientTotal = [c \in Clients |-> 0]
    /\ siteTotal = 0
    /\ siteVersion = 0
    /\ destroyed = {}
    /\ coverImage = "cover1"

\* no upload has been made, the clock is at its origin
InitEnv ==
    /\ uploaded = {}
    /\ now = 0

InitTasks ==
    /\ tasks = [t \in TaskIds |-> NoTask]
    /\ clientCompleted = 0
    /\ workerCompleted = [u \in Users |-> 0]
    /\ siteCompleted = 0
    /\ sections = [s \in SectionIds |-> [lastTaskStatus |-> None, lastTaskId |-> 0]]
    /\ req = [r \in Reqs |-> IdleReq]
    /\ issued = [item \in Items |-> 0]
    /\ completions = [t \in TaskIds |-> 0]
    /\ InitSite
    /\ InitEnv
    /\ controller = "snapshot"

\* the ledger is exercised on one item: items do not interact
LedgerItems == {"i1"}

InitInventory ==
    /\ inventory = [item \in Items |-> MaxStock]
    /\ InitTasks

NextInventory ==
    \E r \in Reqs :
        \/ \E op \in {"deduct", "restock"}, item \in LedgerItems, amt \in Amounts :
               InvFind(r, op, item, amt)
        \/ InvDeduct(r)
        \/ InvRestock(r)
        \/ Respond(r)

SpecInventory == InitInventory /\ [][NextInventory]_vars

\* ------------------------------------------- assignment and its materials

\* the materials lists tasks are created with
MaterialLists ==
    {<<>>, <<Material("i1", 1)>>, <<Material("i1", 1), Material("i2", MaxStock + 1)>>}

InitAssign ==
    /\ inventory = [item \in Items |-> MaxStock]
    /\ InitTasks

NextAssign ==
    \E r \in Reqs :
        \/ \E t \in NewTaskId(TaskIds), worker \in {None, "w1"},
                materials \in MaterialLists :
               CreateTask(r, t, worker, materials, <<"s1">>)
        \/ \E t \in TaskIds, workerId \in Users : AssignFind(r, t, workerId)
        \/ AssignSave(r)
        \/ \E t \in TaskIds : UpdFind(r, "admin", t, None, "w1", NoBody)
        \/ UpdMatFind(r)
        \/ UpdMatDeduct(r)
        \/ UpdWrite(r)
        \/ Respond(r)

SpecAssign == InitAssign /\ [][NextAssign]_vars

\* ------------------------------------------------------- the lifecycle

\* one task at a time is followed through its states
LifecycleTasks == {1}

\* the section lists tasks are created with
SectionLists == {<<"s1">>, <<"s1", "s2">>}

InitLifecycle == InitAssign

UpdateSteps(r) ==
    \/ UpdIncClient(r)
    \/ UpdIncWorker(r)
    \/ UpdIncSite(r)
    \/ UpdSiteFind(r)
    \/ UpdSecSave(r)
    \/ UpdWrite(r)

NextLifecycle ==
    \E r \in Reqs :
        \/ \E t \in NewTaskId(LifecycleTasks), secs \in SectionLists :
               CreateTask(r, t, "w1", <<>>, secs)
        \/ \E t \in LifecycleTasks : AssignFind(r, t, "w1")
        \/ AssignSave(r)
        \/ \E t \in LifecycleTasks : StartFind(r, "w1", t)
        \/ StartSave(r)
        \/ \E t \in LifecycleTasks : CompleteFind(r, "w1", t)
        \/ CompleteSave(r)
        \/ \E t \in LifecycleTasks, bstatus \in {"in-progress", "completed", "rejected"} :
               UpdFind(r, "admin", t, bstatus, None, NoBody)
        \/ UpdateSteps(r)
        \/ Respond(r)

SpecLifecycle == InitLifecycle /\ [][NextLifecycle]_vars

\* ------------------------------------------- concurrent completion calls

\* a task in progress, as createTask and startTask leave it
InitCompleteRace ==
    /\ inventory = [item \in Items |-> MaxStock]
    /\ tasks = [t \in TaskIds |->
                  IF t = 1 THEN Started(TaskDoc("in-progress", "w1", <<>>, <<"s1">>))
                  ELSE NoTask]
    /\ clientCompleted = 0
    /\ workerCompleted = [u \in Users |-> 0]
    /\ siteCompleted = 0
    /\ sections = [s \in SectionIds |-> [lastTaskStatus |-> None, lastTaskId |-> 0]]
    /\ req = [r \in Reqs |-> IdleReq]
    /\ issued = [item \in Items |-> 0]
    /\ completions = [t \in TaskIds |-> 0]
    /\ InitSite
    /\ InitEnv
    /\ controller = "snapshot"

NextCompleteRace ==
    \E r \in Reqs :
        \/ CompleteFind(r, "w1", 1)
        \/ CompleteSave(r)
        \/ \E caller \in {"w1", "admin"} : UpdFind(r, caller, 1, "completed", None, NoBody)
        \/ UpdateSteps(r)
        \/ Respond(r)

SpecCompleteRace == InitCompleteRace /\ [][NextCompleteRace]_vars

\* --------------------------------------------------- who may act on a task

\* a task of worker w1 and client c1, assigned
InitAccess ==
    /\ inventory = [item \in Items |-> MaxStock]
    /\ tasks = [t \in TaskIds |->
                  IF t = 1 THEN TaskDoc("assigned", "w1", <<>>, <<"s1">>) ELSE NoTask]
    /\ clientCompleted = 0
    /\ workerCompleted = [u \in Users |-> 0]
    /\ siteCompleted = 0
    /\ sections = [s \in SectionIds |-> [lastTaskStatus |-> None, lastTaskId |-> 0]]
    /\ req = [r \in Reqs |-> IdleReq]
    /\ issued = [item \in Items |-> 0]
    /\ completions = [t \in TaskIds |-> 0]
    /\ InitSite
    /\ InitEnv
    /\ controller \in Controllers

\* the callers: the task's worker, another worker, an admin, another client
AccessCallers == {"w1", "w2", "admin", "c2"}

NextAccess ==
    \E r \in Reqs :
        \/ \E caller \in AccessCallers : UpdFind(r, caller, 1, "review", None, NoBody)
        \/ UpdWrite(r)
        \/ \E caller \in AccessCallers : StartFind(r, caller, 1)
        \/ StartSave(r)
        \/ \E caller \in AccessCallers : CompleteFind(r, caller, 1)
        \/ CompleteSave(r)
        \/ \E caller \in AccessCallers :
               FeedbackFind(r, "submitFeedback", caller, 1, "5", None, None, FALSE)
        \/ FeedbackSave(r)
        \/ \E caller \in AccessCallers, worker \in Workers \cup {None} :
               GetTasks(r, caller, None, worker)
        \/ \E caller \in AccessCallers : GetTaskFind(r, caller, 1)
        \/ GetTaskRead(r)
        \/ Respond(r)

SpecAccess == InitAccess /\ [][NextAccess]_vars

\* ------------------------------------------------------ feedback on a task

\* the bodies of the feedback submissions: rating, comment, imageNumber, and
\* whether a feedbackImage file comes with them
FeedbackBodies ==
    {<<"5", None, None, FALSE>>, <<"1", "late", "1", TRUE>>, <<"6", None, None, FALSE>>}

\* a completed task and a task in progress, both of client c1
InitFeedback ==
    /\ inventory = [item \in Items |-> MaxStock]
    /\ tasks = [t \in TaskIds |->
                  IF t = 1 THEN Finished(Started(TaskDoc("completed", "w1", <<>>, <<"s1">>)))
                  ELSE IF t = 2
                       THEN Started(TaskDoc("in-progress", "w1", <<>>, <<"s1">>))
                  ELSE NoTask]
    /\ clientCompleted = 0
    /\ workerCompleted = [u \in Users |-> 0]
    /\ siteCompleted = 0
    /\ sections = [s \in SectionIds |-> [lastTaskStatus |-> None, lastTaskId |-> 0]]
    /\ req = [r \in Reqs |-> IdleReq]
    /\ issued = [item \in Items |-> 0]
    /\ completions = [t \in TaskIds |-> 0]
    /\ InitSite
    /\ InitEnv
    /\ controller = "snapshot"

FeedbackTasks == {1, 2}

NextFeedback ==
    \E r \in Reqs :
        \/ \E caller \in Clients, t \in FeedbackTasks, b \in FeedbackBodies :
               FeedbackFind(r, "submitFeedback", caller, t, b[1], b[2], b[3], b[4])
        \/ \E caller \in Clients, t \in FeedbackTasks :
               FeedbackFind(r, "markSatisfied", caller, t, None, None, None, FALSE)
        \/ FeedbackSave(r)
        \/ Respond(r)

SpecFeedback == InitFeedback /\ [][NextFeedback]_vars

\* ------------------------------------------------------- creating tasks

\* the bodies createTask is called with: site, sections, client, worker
CreateBodies ==
    {<<TheSite, <<"s1">>, "c2", "w1">>,
     <<TheSite, <<"s2", "s1">>, None, "w1">>,
     <<TheSite, <<"s1">>, "c1", None>>,
     <<TheSite, <<>>, "c1", "w1">>,
     <<TheSite, <<"s1", NoSuchSection>>, "c1", "w1">>,
     <<TheSite, <<NoSuchSection>>, None, None>>,
     <<NoSuchSite, <<"s1">>, "c1", "w1">>,
     <<None, <<"s1">>, "c1", "w1">>}

InitCreate ==
    /\ inventory = [item \in Items |-> MaxStock]
    /\ tasks = [t \in TaskIds |-> NoTask]
    /\ clientCompleted = 0
    /\ workerCompleted = [u \in Users |-> 0]
    /\ siteCompleted = 0
    /\ sections = [s \in SectionIds |-> [lastTaskStatus |-> None, lastTaskId |-> 0]]
    /\ req = [r \in Reqs |-> IdleReq]
    /\ issued = [item \in Items |-> 0]
    /\ completions = [t \in TaskIds |-> 0]
    /\ InitSite
    /\ InitEnv
    /\ controller \in Controllers

NextCreate ==
    \E r \in Reqs :
        \/ \E b \in CreateBodies : CrtFind(r, b[1], b[2], b[3], b[4])
        \/ CrtStore(r)
        \/ CrtIncClient(r)
        \/ CrtIncSite(r)
        \/ Respond(r)

SpecCreate == InitCreate /\ [][NextCreate]_vars

\* ------------------------------------- reference images of a created task

InitReference == InitCreate

NextReference ==
    \E r \in Reqs :
        \/ CrtFind(r, TheSite, <<"s1">>, "c1", "w1")
        \/ CrtStore(r)
        \/ CrtIncClient(r)
        \/ CrtIncSite(r)
        \/ \E s \in Range(SiteSections) : AddSectionImage(r, s, "c")
        \/ \E s \in Range(SiteSections), img \in ImageIds :
               DelSecEntry(r, "admin", img, TheSite, s, img)
        \/ DelDestroy(r)
        \/ DelSecFind(r)
        \/ DelSecSave(r)
        \/ GetTaskFind(r, "admin", 1)
        \/ GetTaskRead(r)
        \/ Respond(r)

SpecReference == InitReference /\ [][NextReference]_vars

\* ------------------------------------------- the sections a task names

\* the section lists updateTask is given: none, a section of the site, an id
\* that names no section
UpdateSections == {<<>>, <<"s2">>, <<NoSuchSection>>}

InitSections == InitCreate

NextSections ==
    \E r \in Reqs :
        \/ \E secs \in SectionLists : CrtFind(r, TheSite, secs, "c1", "w1")
        \/ CrtStore(r)
        \/ CrtIncClient(r)
        \/ CrtIncSite(r)
        \/ \E t \in TaskIds, secs \in UpdateSections :
               UpdFind(r, "admin", t, None, None, [sections |-> secs])
        \/ UpdWrite(r)
        \/ \E s \in SectionIds : DeleteSection(r, s)
        \/ Respond(r)

SpecSections == InitSections /\ [][NextSections]_vars

\* ------------------------------------------------------ the media of a task

\* task 1 of worker w1 with two attachments before, the first hidden and the
\* second visible, and one hidden attachment after
InitMedia ==
    /\ inventory = [item \in Items |-> MaxStock]
    /\ tasks = [t \in TaskIds |->
                  IF t = 1
                  THEN [TaskDoc("assigned", "w1", <<>>, <<"s1">>) EXCEPT
                          !.images = [before |-> <<Attachment("m1", "m1", FALSE),
                                                   Attachment("m2", "m2", TRUE)>>,
                                      after |-> <<Attachment("m3", "m3", FALSE)>>]]
                  ELSE NoTask]
    /\ clientCompleted = 0
    /\ workerCompleted = [u \in Users |-> 0]
    /\ siteCompleted = 0
    /\ sections = [s \in SectionIds |-> [lastTaskStatus |-> None, lastTaskId |-> 0]]
    /\ req = [r \in Reqs |-> IdleReq]
    /\ issued = [item \in Items |-> 0]
    /\ completions = [t \in TaskIds |-> 0]
    /\ InitSite
    /\ uploaded = {"m1", "m2", "m3"}
    /\ now = 0
    /\ controller = "snapshot"

\* the uploads: caller, imageType, files, isVisibleToClient
UploadBodies ==
    {<<"w1", "before", <<"m4", "m5">>, None>>,
     <<"w1", "before", <<"m6">>, "false">>,
     <<"w1", "reference", <<"m4">>, None>>,
     <<"w1", "after", <<>>, None>>,
     <<"w2", "before", <<"m4">>, None>>}

\* an attachment id that names no attachment
NoSuchMedia == "m9"

\* uploads, beside the deletion of an attachment of the slot
NextUpload ==
    \E r \in Reqs :
        \/ \E b \in UploadBodies : UploadFind(r, b[1], 1, b[2], b[3], b[4])
        \/ UploadSave(r)
        \/ DelImgFind(r, "w1", 1, "before", "m1")
        \/ DelImgDestroy(r)
        \/ DelImgSave(r)
        \/ Respond(r)

SpecUpload == InitMedia /\ [][NextUpload]_vars

\* the admin's changes of visibility, beside the deletion of an attachment
NextVisibility ==
    \E r \in Reqs :
        \/ \E id \in {"m1", NoSuchMedia} : TogFind(r, "admin", 1, "before", id)
        \/ TogSave(r)
        \/ \E isVisible \in BOOLEAN :
               BulkFind(r, "admin", 1, "before", {"m1", NoSuchMedia}, isVisible)
        \/ BulkSave(r)
        \/ DelImgFind(r, "admin", 1, "before", "m2")
        \/ DelImgDestroy(r)
        \/ DelImgSave(r)
        \/ Respond(r)

SpecVisibility == InitMedia /\ [][NextVisibility]_vars

\* deletions, beside a change of visibility and an upload in the same slot
NextRemove ==
    \E r \in Reqs :
        \/ \E id \in {"m1", NoSuchMedia} : DelImgFind(r, "w1", 1, "before", id)
        \/ DelImgDestroy(r)
        \/ DelImgSave(r)
        \/ TogFind(r, "admin", 1, "before", "m2")
        \/ TogSave(r)
        \/ UploadFind(r, "w1", 1, "before", <<"m4">>, None)
        \/ UploadSave(r)
        \/ Respond(r)

SpecRemove == InitMedia /\ [][NextRemove]_vars

\* a completed task with two attachments before, one after and a feedback
\* that carries an image, on the site with its cover image
InitDeleteImage ==
    /\ inventory = [item \in Items |-> MaxStock]
    /\ tasks = [t \in TaskIds |->
                  IF t = 1
                  THEN [Finished(Started(TaskDoc("completed", "w1", <<>>, <<"s1">>))) EXCEPT
                          !.images = [before |-> <<Attachment("m1", "m1", FALSE),
                                                   Attachment("m2", "m2", TRUE)>>,
                                      after |-> <<Attachment("m3", "m3", FALSE)>>],
                          !.feedback = [rating |-> 5, comment |-> "",
                                        imageNumber |-> NoNumber,
                                        image |-> FeedbackImage]]
                  ELSE NoTask]
    /\ clientCompleted = 0
    /\ workerCompleted = [u \in Users |-> 0]
    /\ siteCompleted = 0
    /\ sections = [s \in SectionIds |-> [lastTaskStatus |-> None, lastTaskId |-> 0]]
    /\ req = [r \in Reqs |-> IdleReq]
    /\ issued = [item \in Items |-> 0]
    /\ completions = [t \in TaskIds |-> 0]
    /\ InitSite
    /\ uploaded = {"m1", "m2", "m3", FeedbackImage}
    /\ now = 0
    /\ controller = "snapshot"

\* DELETE /delete-image for each kind of image, and with the storage id of
\* another attachment than the one named; s1's image "a" is the reference image createTask copies for a
\* task on s1
NextDeleteImage ==
    \E r \in Reqs :
        \/ DelEntry(r, "admin", "cover1", "site", TheSite, 0, None, None, "cover")
        \/ DelEntry(r, "admin", "b", "section", TheSite, 0, "s2", "b", "reference")
        \/ \E m \in {"m1", NoSuchMedia} :
               DelEntry(r, "admin", m, "task", None, 1, None, m, "before")
        \/ DelEntry(r, "admin", "a", "task", None, 1, None, "a", "reference")
        \/ DelEntry(r, "admin", FeedbackImage, "feedback", None, 1, None, None, "feedback")
        \/ DelEntry(r, "admin", "m2", "task", None, 1, None, "m3", "after")
        \/ DelDestroy(r)
        \/ DelSecFind(r)
        \/ DelSecSave(r)
        \/ DelEntityFind(r)
        \/ DelEntitySave(r)
        \/ DelImgSave(r)
        \/ Respond(r)

SpecDeleteImage == InitDeleteImage /\ [][NextDeleteImage]_vars

\* --------------------------------------------- the pre-save hook's fields

\* a task assigned to w1 on section s1, as createTask and assignTask leave it
InitHooks ==
    /\ inventory = [item \in Items |-> MaxStock]
    /\ tasks = [t \in TaskIds |->
                  IF t = 1 THEN TaskDoc("assigned", "w1", <<>>, <<"s1">>) ELSE NoTask]
    /\ clientCompleted = 0
    /\ workerCompleted = [u \in Users |-> 0]
    /\ siteCompleted = 0
    /\ sections = [s \in SectionIds |-> [lastTaskStatus |-> None, lastTaskId |-> 0]]
    /\ req = [r \in Reqs |-> IdleReq]
    /\ issued = [item \in Items |-> 0]
    /\ completions = [t \in TaskIds |-> 0]
    /\ InitSite
    /\ InitEnv
    /\ controller = "snapshot"

\* the cost object an updateTask body gives
BodyCost == [labor |-> 1, materials |-> 1]

\* the saves of startTask and completeTask, beside an updateTask that sets
\* the cost
NextCost ==
    \E r \in Reqs :
        \/ StartFind(r, "w1", 1)
        \/ StartSave(r)
        \/ CompleteFind(r, "w1", 1)
        \/ CompleteSave(r)
        \/ UpdFind(r, "admin", 1, None, None, [cost |-> BodyCost])
        \/ UpdWrite(r)
        \/ Respond(r)

SpecCost == InitHooks /\ [][NextCost]_vars

\* startTask and the completion through updateTask under a moving clock
NextHooks ==
    \/ Tick
    \/ \E r \in Reqs :
           \/ StartFind(r, "w1", 1)
           \/ StartSave(r)
           \/ UpdFind(r, "admin", 1, "completed", None, NoBody)
           \/ UpdateSteps(r)
           \/ Respond(r)

SpecHooks == InitHooks /\ [][NextHooks]_vars

\* updateTask with status completed, with and without a priority outside the
\* enum, and on a task that does not exist; no further completion is asked
\* once the client's counter is at MaxCount
NextFailedUpdate ==
    \E r \in Reqs :
        \/ \E body \in {NoBody, [priority |-> "bogus"]} :
               /\ clientCompleted < MaxCount
               /\ UpdFind(r, "admin", 1, "completed", None, body)
        \/ UpdFind(r, "admin", 2, "completed", None, NoBody)
        \/ UpdateSteps(r)
        \/ Respond(r)

SpecFailedUpdate == InitHooks /\ [][NextFailedUpdate]_vars

\* calls on one task that follow one another: a call is made when no other is
\* under way
NextSequence ==
    \E r \in Reqs :
        \/ /\ \A q \in Reqs : req[q].pc \in {"idle", "done"}
           /\ \/ StartFind(r, "w1", 1)
              \/ CompleteFind(r, "w1", 1)
              \/ \E bstatus \in {"completed", "in-progress", "rejected"} :
                     UpdFind(r, "admin", 1, bstatus, None, NoBody)
        \/ StartSave(r)
        \/ CompleteSave(r)
        \/ UpdateSteps(r)
        \/ Respond(r)

SpecSequence == InitHooks /\ [][NextSequence]_vars

\* ------------------------------------------------- who is given a task

\* a task is created with no worker or with the admin's account as its
\* worker, and assigned to any account through assignTask and updateTask
NextRoles ==
    \E r \in Reqs :
        \/ \E t \in NewTaskId(LifecycleTasks), worker \in {None, "admin"} :
               CreateTask(r, t, worker, <<>>, <<"s1">>)
        \/ \E workerId \in Users : AssignFind(r, 1, workerId)
        \/ AssignSave(r)
        \/ \E bworker \in Users : UpdFind(r, "admin", 1, None, bworker, NoBody)
        \/ UpdWrite(r)
        \/ Respond(r)

SpecRoles == InitAssign /\ [][NextRoles]_vars

\* ------------------------------------------- the summaries of sections

\* two tasks in progress: task 1 on the sections s1 and s2, task 2 on s2
InitSummary ==
    /\ inventory = [item \in Items |-> MaxStock]
    /\ tasks = [t \in TaskIds |->
                  IF t = 1 THEN Started(TaskDoc("in-progress", "w1", <<>>, <<"s1", "s2">>))
                  ELSE IF t = 2 THEN Started(TaskDoc("in-progress", "w1", <<>>, <<"s2">>))
                  ELSE NoTask]
    /\ clientCompleted = 0
    /\ workerCompleted = [u \in Users |-> 0]
    /\ siteCompleted = 0
    /\ sections = [s \in SectionIds |-> [lastTaskStatus |-> None, lastTaskId |-> 0]]
    /\ req = [r \in Reqs |-> IdleReq]
    /\ issued = [item \in Items |-> 0]
    /\ completions = [t \in TaskIds |-> 0]
    /\ InitSite
    /\ InitEnv
    /\ controller = "snapshot"

\* rejections of task 1 and completions of task 2 through updateTask, beside
\* the deletion of the section s1
NextSummary ==
    \E r \in Reqs :
        \/ UpdFind(r, "admin", 1, "rejected", None, NoBody)
        \/ UpdFind(r, "admin", 2, "completed", None, NoBody)
        \/ UpdateSteps(r)
        \/ DeleteSection(r, "s1")
        \/ Respond(r)

SpecSummary == InitSummary /\ [][NextSummary]_vars

\* ------------------------------------------------- the site's task counters

\* a request in flight that holds task t
Holds(r, t) == req[r].pc \notin {"idle", "done"} /\ req[r].task = t

\* deleteTask: Task.findById; a task that is not there is answered 404
DelTaskFind(r, t) ==
    /\ FreeSlot(r)
    /\ LET rq == [IdleReq EXCEPT !.op = "deleteTask", !.caller = "admin", !.task = t,
                                 !.tdoc = tasks[t]]
       IN req' = [req EXCEPT ![r] =
                    IF tasks[t] = NoTask THEN Done(rq, "notfound")
                    ELSE [rq EXCEPT !.pc = "taskDelete"]]
    /\ UNCHANGED <<inventory, taskVars>>

\* a deleteTask that takes the task out of the site's totalTasks
DelTaskDeleteDecrement(r) ==
    LET rq == req[r] IN
    /\ rq.pc = "taskDelete"
    /\ tasks' = [tasks EXCEPT ![rq.task] = NoTask]
    /\ siteTotal' = siteTotal - 1
    /\ req' = [req EXCEPT ![r] = Done(rq, "ok")]
    /\ UNCHANGED <<envVars, coverImage, inventory, counters, sections, issued, completions,
                   refImages, clientTotal, siteVersion, destroyed, controller>>

\* deleteTask: task.deleteOne() and the response; no counter is touched
DelTaskDelete(r) ==
    LET rq == req[r] IN
    /\ rq.pc = "taskDelete"
    /\ tasks' = [tasks EXCEPT ![rq.task] = NoTask]
    /\ req' = [req EXCEPT ![r] = Done(rq, "ok")]
    /\ UNCHANGED <<envVars, siteVars, inventory, counters, sections, issued, completions>>

\* createTask, updateTask to "completed", completeTask and deleteTask under
\* either controller, the completions and deletions being those of task 1.
\* A createTask starts while task 1 is not there, a deleteTask runs while no
\* other request holds its task, and the counters stay within MaxCount
NextCounters ==
    \E r \in Reqs :
        \/ /\ siteTotal < MaxCount /\ tasks[1] = NoTask
           /\ CrtFind(r, TheSite, <<"s1">>, "c1", "w1")
        \/ CrtStore(r)
        \/ CrtIncClient(r)
        \/ CrtIncSite(r)
        \/ /\ siteCompleted < MaxCount
           /\ \A q \in Reqs : ~(Holds(q, 1) /\ req[q].op = "deleteTask")
           /\ UpdFind(r, "admin", 1, "completed", None, NoBody)
        \/ UpdateSteps(r)
        \/ /\ \A q \in Reqs : ~(Holds(q, 1) /\ req[q].op = "deleteTask")
           /\ CompleteFind(r, "w1", 1)
        \/ CompleteSave(r)
        \/ /\ \A q \in Reqs : ~Holds(q, 1)
           /\ DelTaskFind(r, 1)
        \/ DelTaskDelete(r)
        \/ Respond(r)

SpecCounters == InitCreate /\ [][NextCounters]_vars

\* ------------------------------------------------------------------ claims

\* C1: deduct(q) on an inventory document whose current stock is c succeeds
\* and stores c - q when q <= c; when q > c it fails with 'Insufficient
\* stock' and the stored quantity.current is what it was.
C1_DeductContract ==
    [][\A r \in Reqs :
          (req[r].pc = "loaded" /\ req[r].op = "deduct" /\ req'[r].pc = "done") =>
              LET c == req[r].idoc
                  q == req[r].amt
                  item == req[r].item
              IN IF q <= c
                 THEN req'[r].res = "ok" /\ inventory'[item] = c - q
                 ELSE req'[r].res = "insufficient" /\ inventory' = inventory]_vars

\* a deduction that succeeded and took stock away, beside one that was refused
C1_Witness ==
    \E r, q \in Reqs :
        /\ req[r].op = "deduct" /\ req[r].pc = "done" /\ req[r].res = "ok"
        /\ req[r].amt > 0 /\ req[r].amt <= req[r].idoc
        /\ inventory[req[r].item] = req[r].idoc - req[r].amt
        /\ req[q].op = "deduct" /\ req[q].pc = "done" /\ req[q].res = "insufficient"
        /\ req[q].amt > req[q].idoc

\* C3: the stored quantity.current of every inventory item is >= 0 after any
\* sequence of deduct and restock calls.
C3_StockNonNegative == \A item \in Items : inventory[item] >= 0

\* a restock that would have driven the stock below zero was refused, and a
\* deduction has emptied an item
C3_Witness ==
    \E r, q \in Reqs :
        /\ req[r].op = "restock" /\ req[r].pc = "done" /\ req[r].res = "invalid"
        /\ req[r].idoc + req[r].amt < 0
        /\ req[q].op = "deduct" /\ req[q].pc = "done" /\ req[q].res = "ok"
        /\ req[q].amt > 0 /\ inventory[req[q].item] = 0
\* the deductions a request has saved so far: those of the first mi materials
\* of the task it loaded
CommittedDeductions(rq) == SubSeq(rq.tdoc.materials, 1, rq.mi)

\* a request that gives a worker to a task that had none and has materials
AssignsWorker(rq) ==
    /\ rq.op \in {"assignTask", "updateTask"}
    /\ rq.bworker # None
    /\ rq.tdoc # NoTask
    /\ rq.tdoc.worker = None
    /\ Len(rq.tdoc.materials) > 0

\* request r ends in this step
Ends(r) == req[r].pc # "done" /\ req'[r].pc = "done"

Quiet(rs) == \A r \in rs : req[r].pc \in {"idle", "done"}

\* C2: no deduction is lost when tasks deduct from the same item
\* concurrently: once every request is over, each item's quantity.current is
\* its initial quantity minus what the successful deductions took, and it is
\* not negative.
C2_NoLostDeduction ==
    Quiet(Reqs) =>
        \A item \in Items :
            /\ inventory[item] = MaxStock - issued[item]
            /\ inventory[item] >= 0

\* C4: an assignment (assignTask, or updateTask with a worker) of a task that
\* has no worker and has materials leaves the task 'assigned' and has
\* deducted every material of the task.
C4_AssignmentDeducts ==
    [][\A r \in Reqs :
          (Ends(r) /\ req'[r].res = "ok" /\ AssignsWorker(req'[r])) =>
              /\ tasks'[req'[r].task].status = "assigned"
              /\ CommittedDeductions(req'[r]) = req'[r].tdoc.materials]_vars

\* C5: an assignment that fails for insufficient stock has committed no
\* deduction and leaves the task as it was.
C5_FailedAssignmentCommitsNothing ==
    [][\A r \in Reqs :
          (Ends(r) /\ req'[r].res = "insufficient") =>
              /\ CommittedDeductions(req'[r]) = <<>>
              /\ tasks'[req'[r].task] = req'[r].tdoc]_vars

RECURSIVE Sum(_, _)
Sum(f, S) == IF S = {} THEN 0
             ELSE LET x == CHOOSE y \in S : TRUE IN f[x] + Sum(f, S \ {x})

\* C6: a completion (completeTask, or updateTask with status 'completed')
\* sets lastTaskStatus = 'completed' and lastTaskId on every section of the
\* task and adds exactly 1 to each of the three completedTasks counters: when
\* a completion has just answered and nothing else is in flight, the sections
\* show it and each counter equals the number of completions.
C6_CompletionCascade ==
    \A r \in Reqs :
        (/\ req[r].pc = "done" /\ req[r].res = "ok" /\ Completes(req[r])
         /\ \A q \in Reqs \ {r} : req[q].pc = "idle") =>
            /\ \A k \in 1..Len(req[r].tdoc.sections) :
                   sections[req[r].tdoc.sections[k]] =
                       [lastTaskStatus |-> "completed", lastTaskId |-> req[r].task]
            /\ clientCompleted = Sum(completions, TaskIds)
            /\ siteCompleted = Sum(completions, TaskIds)
            /\ Sum(workerCompleted, Users) = Sum(completions, TaskIds)

\* a request to complete the task it loaded, which got past the not-found
\* and authorization checks
AsksCompletion(rq) ==
    /\ rq.pc = "done"
    /\ rq.res \notin {"notfound", "forbidden", "error"}
    /\ \/ rq.op = "completeTask"
       \/ rq.op = "updateTask" /\ rq.bstatus = "completed"

\* C7: a completion of a task that is not completed succeeds; a completion
\* of a task that is already completed, through completeTask or updateTask,
\* fails with a conflict.
C7_SecondCompletionConflicts ==
    \A r \in Reqs :
        AsksCompletion(req[r]) =>
            req[r].res = IF req[r].tdoc.status = "completed" THEN "conflict" ELSE "ok"

\* C8: of two concurrent completeTask calls on the same task at most one
\* reports success.
C8_OneCompleteSucceeds ==
    \A r, q \in Reqs :
        (/\ r # q
         /\ req[r].op = "completeTask" /\ req[q].op = "completeTask"
         /\ req[r].task = req[q].task
         /\ req[r].pc = "done" /\ req[q].pc = "done") =>
            ~(req[r].res = "ok" /\ req[q].res = "ok")

\* C9: concurrent updateTask requests that set 'completed' on the same task
\* increment each completedTasks counter at most once for that task.
C9_CountedOnce ==
    /\ clientCompleted <= 1
    /\ siteCompleted <= 1
    /\ \A u \in Users : workerCompleted[u] <= 1

\* the state machine: pending -> assigned -> in-progress -> completed,
\* any -> rejected, any -> review
Allowed(from, to) ==
    \/ from = "pending" /\ to = "assigned"
    \/ from = "assigned" /\ to = "in-progress"
    \/ from = "in-progress" /\ to = "completed"
    \/ to \in {"rejected", "review"}

\* C10: every change of a task's status is a transition of the state machine.
C10_OnlyAllowedTransitions ==
    [][\A t \in TaskIds :
          (tasks[t] # NoTask /\ tasks'[t].status # tasks[t].status) =>
              Allowed(tasks[t].status, tasks'[t].status)]_vars

\* request r acts in this step and the stored task t is not what it was
Mutates(r, t) ==
    /\ req'[r] # req[r]
    /\ tasks[t] # NoTask
    /\ tasks'[t] # tasks[t]

\* C11: no operation invoked by a caller with role 'worker' mutates a task
\* whose assigned worker is not that caller: every step of a worker's request
\* that changes a stored task changes a task assigned to the caller.
C11_WorkerMutatesOwnTaskOnly ==
    [][\A r \in Reqs, t \in TaskIds :
          (Mutates(r, t) /\ Role(req'[r].caller) = "worker") =>
              tasks[t].worker = req'[r].caller]_vars

\* C12: getTasks called by a worker answers only tasks whose assigned worker
\* is the caller, whatever the filters of the query; getTask answers a worker
\* only a task assigned to the caller.
C12_WorkerReadsOwnTasksOnly ==
    \A r \in Reqs :
        (req[r].pc = "done" /\ req[r].res = "ok" /\ Role(req[r].caller) = "worker") =>
            /\ req[r].op = "getTasks" =>
                   \A t \in req[r].out : tasks[t].worker = req[r].caller
            /\ req[r].op = "getTask" => req[r].out.task.worker = req[r].caller

\* C13: no operation invoked by a caller with role 'client' changes a stored
\* task, except that it writes the feedback of a completed task whose client
\* is the caller.
C13_ClientWritesOwnFeedbackOnly ==
    [][\A r \in Reqs, t \in TaskIds :
          (Mutates(r, t) /\ Role(req'[r].caller) = "client") =>
              /\ tasks[t].status = "completed"
              /\ tasks[t].client = req'[r].caller
              /\ tasks'[t] = [tasks[t] EXCEPT !.feedback = tasks'[t].feedback]]_vars

\* C14: a caller with role 'admin' is never refused with an authorization
\* error by an operation on an existing task.
C14_AdminNeverRefused ==
    \A r \in Reqs :
        (req[r].pc = "done" /\ Role(req[r].caller) = "admin"
         /\ req[r].op \in {"startTask", "completeTask", "updateTask", "getTask"}) =>
            req[r].res # "forbidden"

FeedbackOps == {"submitFeedback", "markSatisfied"}

\* C15: submitFeedback and markSatisfied on a task whose status is not
\* 'completed' fail with a validation error and leave the task's feedback
\* (and the rest of the task) exactly as it was.
C15_FeedbackNeedsCompleted ==
    [][\A r \in Reqs :
          (/\ req[r].pc = "idle"
           /\ req'[r].op \in FeedbackOps
           /\ tasks[req'[r].task] # NoTask
           /\ tasks[req'[r].task].status # "completed") =>
              /\ req'[r].pc = "done"
              /\ req'[r].res = "validation"
              /\ tasks' = tasks]_vars

\* both entry points have been refused on the task in progress, whose feedback
\* is unset
C15_Witness ==
    \E r, q \in Reqs :
        /\ req[r].op = "submitFeedback" /\ req[q].op = "markSatisfied"
        /\ req[r].res = "validation" /\ req[q].res = "validation"
        /\ req[r].task = 2 /\ req[q].task = 2
        /\ tasks[2].status = "in-progress"
        /\ tasks[2].feedback = NoFeedback

\* the record the claim gives a successful call: the fixed 5-star record of
\* markSatisfied, or the submitted rating and comment with isSatisfiedOnly
\* false, and an image exactly when one was uploaded
ExpectedFeedback(rq) ==
    IF rq.op = "markSatisfied"
    THEN [rating |-> 5, comment |-> "satisfied", isSatisfiedOnly |-> TRUE]
    ELSE LET full == [rating |-> ParseInt(rq.rating),
                      comment |-> IF rq.comment = None THEN "" ELSE rq.comment,
                      imageNumber |-> IF rq.imageNumber = None THEN NoNumber
                                      ELSE ParseInt(rq.imageNumber),
                      isSatisfiedOnly |-> FALSE]
         IN IF rq.file THEN full @@ [image |-> FeedbackImage] ELSE full

\* C16: after any sequence of successful submitFeedback and markSatisfied
\* calls the task holds one feedback record, that of the last successful call
\* alone: each successful call leaves exactly its own record, no field of an
\* earlier record survives, and nothing else changes a task's feedback.
C16_LastFeedbackAlone ==
    [][/\ \A r \in Reqs :
             (Ends(r) /\ req'[r].res = "ok" /\ req'[r].op \in FeedbackOps) =>
                 FeedbackView(tasks'[req'[r].task].feedback) = ExpectedFeedback(req'[r])
       /\ \A t \in TaskIds :
             (tasks[t] # NoTask /\ tasks'[t].feedback # tasks[t].feedback) =>
                 \E r \in Reqs : /\ Ends(r) /\ req'[r].res = "ok"
                                 /\ req'[r].op \in FeedbackOps
                                 /\ req'[r].task = t]_vars

\* a submission with an image was stored, and a later markSatisfied has
\* replaced it
C16_Witness ==
    \E r, q \in Reqs :
        /\ req[r].op = "submitFeedback" /\ req[r].res = "ok" /\ req[r].file
        /\ req[q].op = "markSatisfied" /\ req[q].res = "ok"
        /\ req[r].task = 1 /\ req[q].task = 1
        /\ req[q].tdoc.feedback = req[r].out
        /\ tasks[1].feedback = SatisfiedData

\* a createTask request that has answered success
Created(rq) == rq.op = "createTask" /\ rq.pc = "done" /\ rq.res = "ok"

\* C17: creating a task with sections [s1, s2] stores on the task a
\* referenceImages snapshot equal to s1's reference images followed by s2's,
\* in the order the sections were supplied, each copy tagged with the id of
\* its section.
C17_SnapshotInSuppliedOrder ==
    \A r \in Reqs :
        Created(req[r]) =>
            StoredReferenceImages(tasks[req[r].task]) =
                SnapshotImages(req[r].bsections, refImages)

\* a createTask request that names a site that does not exist or a section
\* that is no section of the site
NamesMissing(rq) ==
    /\ rq.op = "createTask"
    /\ rq.bsite # None
    /\ rq.bsite # TheSite \/ \E k \in 1..Len(rq.bsections) :
                                 rq.bsections[k] \notin Range(SiteSections)

C20_ClientDefaultsToSiteClient ==
    \A r \in Reqs :
        (/\ req[r].op = "createTask" /\ req[r].pc = "done"
         /\ req[r].bclient = None
         /\ req[r].bsite = TheSite /\ req[r].bworker # None
         /\ Len(req[r].bsections) > 0
         /\ Range(req[r].bsections) \subseteq Range(SiteSections)) =>
            /\ req[r].res = "ok"
            /\ tasks[req[r].task].client = SiteClient

\* C18: after a task has been created, adding or deleting reference images
\* of one of its sections never changes the reference images that reading
\* the task (getTask) returns for it: two answers of getTask for the same
\* task give the same reference images.
C18_ReadsAgree ==
    \A r, q \in Reqs :
        (/\ req[r].op = "getTask" /\ req[q].op = "getTask"
         /\ req[r].res = "ok" /\ req[q].res = "ok"
         /\ req[r].task = req[q].task) =>
            req[r].out.referenceImages = req[q].out.referenceImages

\* C21: in every reachable state, after any sequence of createTask, updateTask
\* and Site.deleteSection, every section id of a task's sections list is the
\* id of a section of the site, and the list is not empty.
C21_SectionsOfSite ==
    \A t \in TaskIds :
        tasks[t] # NoTask =>
            /\ Len(tasks[t].sections) > 0
            /\ Range(tasks[t].sections) \subseteq DOMAIN sections

\* the media of the task are now as the request loaded them
Current(rq) ==
    /\ tasks[rq.task].images = rq.tdoc.images
    /\ tasks[rq.task].v = rq.tdoc.v

\* the slot that is not `slot`
OtherSlots(slot) == Slots \ {slot}

\* C22: bulkUpdateImageVisibility(task, slot, ids, value) sets
\* isVisibleToClient to value on exactly the attachments of the slot whose id
\* is in ids, leaves every other attachment and the other slot as they were,
\* raises no error for ids the slot does not hold, and reports as updatedCount
\* the number of attachments matched.  (Stated of the save of every bulk
\* request: the frame always, the flags and the success when the media are
\* still as the request loaded them.)
C22_BulkSetsMatched ==
    [][\A r \in Reqs :
          (req[r].op = "bulkUpdateImageVisibility" /\ req[r].pc = "bulkSave" /\ Ends(r)) =>
              LET rq == req[r]
                  old == tasks[rq.task].images
                  new == tasks'[rq.task].images
                  matched == {k \in 1..Len(old[rq.itype]) : old[rq.itype][k].id \in rq.ids}
              IN /\ req'[r].res # "ok" => tasks' = tasks
                 /\ req'[r].res = "ok" =>
                        /\ Len(new[rq.itype]) = Len(old[rq.itype])
                        /\ \A k \in 1..Len(old[rq.itype]) :
                               k \notin matched => new[rq.itype][k] = old[rq.itype][k]
                        /\ \A o \in OtherSlots(rq.itype) : new[o] = old[o]
                 /\ Current(rq) =>
                        /\ req'[r].res = "ok"
                        /\ req'[r].out = Cardinality(matched)
                        /\ \A k \in matched :
                               new[rq.itype][k] =
                                   [old[rq.itype][k] EXCEPT !.isVisibleToClient = rq.flag]
      ]_vars

\* a bulk request that named m1 and an id of no attachment has made m1 visible,
\* reported one match, and left m2 as it was
C22_Witness ==
    \E r \in Reqs :
        /\ req[r].op = "bulkUpdateImageVisibility" /\ req[r].res = "ok"
        /\ NoSuchMedia \in req[r].ids /\ req[r].flag
        /\ req[r].out = 1
        /\ ~req[r].tdoc.images.before[1].isVisibleToClient
        /\ tasks[1].images.before =
               <<Attachment("m1", "m1", TRUE), Attachment("m2", "m2", TRUE)>>

\* C23: toggleImageVisibility(task, slot, attachmentId) negates
\* isVisibleToClient on the one attachment with that id in that slot and
\* leaves every other attachment's flag as it was; when the id is not in the
\* slot it fails with not-found and changes nothing; a second toggle of the
\* same attachment restores the flag.  (Stated of every toggle request: the
\* frame always, the negation when the media are still as the request loaded
\* them.)
C23_ToggleNegatesOne ==
    [][\A r \in Reqs :
          (req'[r].op = "toggleImageVisibility" /\ Ends(r)) =>
              LET rq == req'[r]
                  old == tasks[rq.task].images
                  new == tasks'[rq.task].images
                  k == IndexOfId(old[rq.itype], rq.image)
              IN IF req[r].pc = "togSave"
                 THEN /\ rq.res # "ok" => tasks' = tasks
                      /\ rq.res = "ok" =>
                             /\ Len(new[rq.itype]) = Len(old[rq.itype])
                             /\ \A j \in 1..Len(old[rq.itype]) :
                                    j # k => new[rq.itype][j] = old[rq.itype][j]
                             /\ \A o \in OtherSlots(rq.itype) : new[o] = old[o]
                      /\ Current(req[r]) =>
                             /\ rq.res = "ok"
                             /\ new[rq.itype][k] =
                                    [old[rq.itype][k] EXCEPT
                                       !.isVisibleToClient = ~old[rq.itype][k].isVisibleToClient]
                 ELSE /\ tasks' = tasks
                      /\ (rq.itype \in Slots /\ k = 0) => rq.res = "notfound"
      ]_vars

\* m1, hidden at first, was toggled to visible by one request and toggled
\* again by a second one, and is hidden as it was; a toggle of an id of no
\* attachment would be refused
C23_Witness ==
    \E r, q \in Reqs :
        /\ req[r].op = "toggleImageVisibility" /\ req[r].res = "ok" /\ req[r].image = "m1"
        /\ req[q].op = "toggleImageVisibility" /\ req[q].res = "ok" /\ req[q].image = "m1"
        /\ req[r].out = TRUE /\ req[q].out = FALSE
        /\ req[q].tdoc.images.before[1].isVisibleToClient
        /\ tasks[1].images.before[1] = Attachment("m1", "m1", FALSE)

\* C24: uploadTaskImages with slot before or after and n >= 1 files appends
\* exactly n attachments, in file order, to the end of the named slot and
\* leaves the attachments the slot held and the other slot as they were; with
\* another slot value or an empty file list it is rejected with a validation
\* error and the media lists of the task are as they were.
C24_UploadAppends ==
    [][\A r \in Reqs :
          (req'[r].op = "uploadTaskImages" /\ Ends(r)) =>
              LET rq == req'[r]
                  old == tasks[rq.task].images
                  new == tasks'[rq.task].images
                  n == Len(rq.files)
              IN IF req[r].pc = "uploadSave"
                 THEN /\ rq.res = "ok"
                      /\ rq.itype \in Slots /\ n >= 1
                      /\ Len(new[rq.itype]) = Len(old[rq.itype]) + n
                      /\ SubSeq(new[rq.itype], 1, Len(old[rq.itype])) = old[rq.itype]
                      /\ \A k \in 1..n :
                             /\ new[rq.itype][Len(old[rq.itype]) + k].id = rq.files[k]
                             /\ new[rq.itype][Len(old[rq.itype]) + k].cloudinaryId = rq.files[k]
                      /\ \A o \in OtherSlots(rq.itype) : new[o] = old[o]
                 ELSE /\ tasks' = tasks
                      /\ (/\ tasks[rq.task] # NoTask
                          /\ OwnTaskOnly(rq.caller, tasks[rq.task])
                          /\ (rq.itype \notin Slots \/ n = 0)) => rq.res = "validation"
                      /\ rq.res = "validation" => (rq.itype \notin Slots \/ n = 0)
      ]_vars

\* two files were appended, in their order, after the two attachments the slot
\* held, beside an upload that was refused for its empty file list
C24_Witness ==
    \E r, q \in Reqs :
        /\ req[r].op = "uploadTaskImages" /\ req[r].res = "ok"
        /\ req[r].files = <<"m4", "m5">>
        /\ Len(tasks[1].images.before) = 4
        /\ tasks[1].images.before[1].id = "m1" /\ tasks[1].images.before[2].id = "m2"
        /\ tasks[1].images.before[3].id = "m4" /\ tasks[1].images.before[4].id = "m5"
        /\ req[q].op = "uploadTaskImages" /\ req[q].res = "validation"
        /\ req[q].files = <<>>

\* C25: an attachment added to a task without an explicit visibility value is
\* hidden from the client (isVisibleToClient = false) until an admin makes it
\* visible.
C25_DefaultHidden ==
    [][\A r \in Reqs :
          (req[r].op = "uploadTaskImages" /\ req[r].pc = "uploadSave" /\ Ends(r)
             /\ req[r].visible = None) =>
              LET new == tasks'[req[r].task].images[req[r].itype]
              IN \A k \in 1..Len(new) :
                     new[k].id \in Range(req[r].files) => ~new[k].isVisibleToClient
      ]_vars

\* C26: deleteTaskImage on an attachment present in the named slot removes
\* exactly that attachment whether the external deletion of its stored object
\* succeeds or fails: an external failure never leaves the local entry in
\* place and never makes the operation report failure; the other attachments
\* keep their order and flags.  (Stated of every deletion request: the
\* external deletion, whatever its outcome, is followed by the removal; the
\* removal is exact when the media are still as the request loaded them.)
C26_RemovalDespiteExternalFailure ==
    [][\A r \in Reqs :
          req[r].op = "deleteTaskImage" =>
              LET rq == req[r]
                  old == tasks[rq.task].images
                  new == tasks'[rq.task].images
              IN /\ (rq.pc = "imgDestroy" /\ req'[r] # rq) =>
                        req'[r].pc = "imgSave" /\ tasks' = tasks
                 /\ (rq.pc = "imgSave" /\ Ends(r)) =>
                        /\ req'[r].res # "ok" => tasks' = tasks
                        /\ req'[r].res = "ok" =>
                               /\ IndexOfId(new[rq.itype], rq.image) = 0
                               /\ \A o \in OtherSlots(rq.itype) : new[o] = old[o]
                        /\ Current(rq) =>
                               /\ req'[r].res = "ok"
                               /\ new[rq.itype] =
                                      Splice(old[rq.itype], IndexOfId(old[rq.itype], rq.image))
      ]_vars

\* the external deletion of m1 failed, the request answered success, m1 is
\* gone from the slot and m2 is there as it was
C26_Witness ==
    \E r \in Reqs :
        /\ req[r].op = "deleteTaskImage" /\ req[r].res = "ok" /\ req[r].image = "m1"
        /\ ~req[r].extok /\ "m1" \notin destroyed
        /\ tasks[1].images.before = <<Attachment("m2", "m2", TRUE)>>

\* the image a deleteImage request names is there: the site's cover, the
\* section's reference image, the task's attachment in the slot, one of the
\* reference images of the task's sections, the image of the task's feedback
Present(rq) ==
    CASE rq.etype = "site" ->
             rq.bsite = TheSite /\ rq.itype = "cover" /\ coverImage # None
      [] rq.etype = "section" ->
             /\ rq.bsite = TheSite /\ rq.section \in DOMAIN refImages
             /\ FindIndex(refImages[rq.section], rq.image) # 0
      [] rq.etype = "feedback" ->
             /\ tasks[rq.task] # NoTask /\ tasks[rq.task].feedback # NoFeedback
             /\ "image" \in DOMAIN tasks[rq.task].feedback
      [] rq.etype = "task" /\ rq.itype \in Slots ->
             /\ tasks[rq.task] # NoTask
             /\ IndexOfId(tasks[rq.task].images[rq.itype], rq.image) # 0
      [] rq.etype = "task" /\ rq.itype = "reference" ->
             /\ tasks[rq.task] # NoTask
             /\ rq.image \in Range(LiveReferenceImages(tasks[rq.task].sections, refImages))
      [] OTHER -> FALSE

\* C27: the universal deleteImage, for each entity type (site cover, section
\* reference, task before/after/reference, feedback), removes the matching
\* field or array entry and reports success whether the external deletion
\* succeeded or failed, and the external deletion attempt precedes the local
\* mutation.
C27_LocalRemovalEachEntity ==
    [][\A r \in Reqs :
          req[r].op = "deleteImage" =>
              /\ (req[r].pc = "destroy" /\ req'[r] # req[r]) =>
                     /\ tasks' = tasks /\ refImages' = refImages
                     /\ coverImage' = coverImage
              /\ (Ends(r) /\ Present(req[r])) =>
                     /\ req'[r].res = "ok"
                     /\ CASE req[r].etype = "site" -> coverImage' = None
                          [] req[r].etype = "section" ->
                                 FindIndex(refImages'[req[r].section], req[r].image) = 0
                          [] req[r].etype = "feedback" ->
                                 "image" \notin DOMAIN tasks'[req[r].task].feedback
                          [] req[r].etype = "task" /\ req[r].itype \in Slots ->
                                 IndexOfId(tasks'[req[r].task].images[req[r].itype],
                                           req[r].image) = 0
                          [] OTHER -> TRUE
      ]_vars

\* C28: after any save of a task document, cost.total equals cost.labor +
\* cost.materials.  (Stated of every task.save() of startTask and
\* completeTask, on a task whose cost is the one the request loaded: the
\* stored cost then has the total of its labor and materials, whatever
\* updateTask had left there.)
C28_TotalAfterSave ==
    [][\A r \in Reqs :
          (/\ req[r].pc \in {"startSave", "completeSave"} /\ Ends(r)
           /\ tasks[req[r].task].cost = req[r].tdoc.cost) =>
              tasks'[req[r].task].cost.total =
                  tasks'[req[r].task].cost.labor + tasks'[req[r].task].cost.materials
      ]_vars

\* startTask loaded the task with labor 1, materials 1 and total 0, as
\* updateTask had left it, and its save stored the total 2
C28_Witness ==
    \E r \in Reqs :
        /\ req[r].op = "startTask" /\ req[r].res = "ok"
        /\ req[r].tdoc.cost = [labor |-> 1, materials |-> 1, total |-> 0]
        /\ tasks[1].cost = [labor |-> 1, materials |-> 1, total |-> 2]

\* C29: in every reachable state in which both startedAt and completedAt of a
\* task are set (tasks completed through updateTask included), actualDuration
\* equals completedAt - startedAt in hours rounded to 2 decimals.
C29_DurationFromDates ==
    \A t \in TaskIds :
        (tasks[t] # NoTask /\ tasks[t].startedAt # NoDate
           /\ tasks[t].completedAt # NoDate) =>
            tasks[t].actualDuration = Round2(tasks[t].completedAt - tasks[t].startedAt)

\* C30: an updateTask request that fails, with a validation error on a field
\* of its body or with not-found, has committed no side effect: it has
\* incremented no completedTasks counter, changed no section's lastTask
\* summary and deducted no inventory quantity.
C30_FailedUpdateCommitsNothing ==
    [][\A r \in Reqs :
          (/\ req'[r].op = "updateTask" /\ Ends(r)
           /\ req'[r].res \in {"invalid", "notfound"}) =>
              /\ ~Completes(req'[r])
              /\ req'[r].si = 0
              /\ req'[r].mi = 0
      ]_vars

\* C37: in every reachable state, also after updateTask has changed cost.labor
\* or cost.materials of an existing task, the stored cost.total equals
\* cost.labor + cost.materials.
C37_StoredTotalIsSum ==
    \A t \in TaskIds :
        tasks[t] # NoTask =>
            tasks[t].cost.total = tasks[t].cost.labor + tasks[t].cost.materials

\* the storage id of the image a deleteImage request names, as its helper
\* loaded it
StorageOf(rq) ==
    CASE rq.etype = "site" -> "cover1"
      [] rq.etype = "section" -> rq.image
      [] rq.etype = "feedback" -> FeedbackImage
      [] OTHER ->
             rq.tdoc.images[rq.itype][IndexOfId(rq.tdoc.images[rq.itype], rq.image)].cloudinaryId

\* C40: whenever the universal deleteImage has an external object destroyed,
\* its storage id is that of the local field or array entry the same call
\* removes: a call that ends in not-found has destroyed no external object,
\* and a call that removes a local entry has destroyed no object of another
\* record.
C40_DestroysWhatItRemoves ==
    [][\A r \in Reqs :
          (req[r].op = "deleteImage" /\ Ends(r) /\ req[r].extok) =>
              /\ req'[r].res = "ok"
              /\ req[r].storage = StorageOf(req[r])
      ]_vars

\* the tasks that have been completed at some time or are being completed by
\* a request in flight
EverCompleted ==
    {t \in TaskIds :
        \/ completions[t] > 0
        \/ \E r \in Reqs : req[r].pc # "idle" /\ req[r].task = t /\ Completes(req[r])}

\* C38: over the whole lifetime of a task, under any sequence of updateTask,
\* startTask and completeTask calls (also ones that move the status away from
\* 'completed' and back), the task adds at most 1 to each of the client's,
\* the worker's and the site's completedTasks: no counter exceeds the number
\* of tasks that have ever been completed.
C38_OneContributionPerTask ==
    /\ clientCompleted <= Cardinality(EverCompleted)
    /\ siteCompleted <= Cardinality(EverCompleted)
    /\ \A u \in Users : workerCompleted[u] <= Cardinality(EverCompleted)

\* the quantity of item the materials list asks for
Quantity(materials, item) ==
    Sum([k \in 1..Len(materials) |->
            IF materials[k].item = item THEN materials[k].quantity ELSE 0],
        1..Len(materials))

\* the quantity of item the tasks that have a worker ask for
Assigned(item) ==
    Sum([t \in TaskIds |->
            IF tasks[t] # NoTask /\ tasks[t].worker # None
            THEN Quantity(tasks[t].materials, item) ELSE 0],
        TaskIds)

\* C39: over the whole lifetime of a task, under any sequence of createTask,
\* assignTask and updateTask calls, each material of the task is deducted
\* from inventory at most once, and a task that has a worker and materials
\* has had them deducted exactly once: once every request is over, what was
\* deducted of each item is what the tasks that have a worker ask for.
C39_MaterialsDeductedOnce ==
    Quiet(Reqs) => \A item \in Items : issued[item] = Assigned(item)

\* C34: in every reachable state a task's worker is absent or an account
\* whose role is 'worker': assigning an account of another role through
\* assignTask, updateTask or createTask is rejected and leaves the task's
\* worker and status as they were.
C34_WorkerHasWorkerRole ==
    \A t \in TaskIds :
        tasks[t] # NoTask =>
            (tasks[t].worker = None \/ Role(tasks[t].worker) = "worker")

\* C36: when the notification dispatcher fails during assignTask, the
\* assignment is committed all the same (task.worker set, status 'assigned')
\* and the operation does not report a failure to its caller: every
\* assignTask that saves the task answers success.
C36_NotificationFailureNotReported ==
    [][\A r \in Reqs :
          (req[r].op = "assignTask" /\ req[r].pc = "assignSave" /\ Ends(r)) =>
              /\ tasks'[req[r].task].worker = req[r].bworker
              /\ tasks'[req[r].task].status = "assigned"
              /\ req'[r].res = "ok"
      ]_vars

\* an updateTask request that completes or rejects the task it loaded
Transition(rq) ==
    /\ rq.op = "updateTask" /\ rq.tdoc # NoTask
    /\ rq.bstatus \in {"completed", "rejected"}
    /\ rq.tdoc.status # rq.bstatus

\* C31: completing or rejecting a task whose site no longer exists, or one of
\* whose sections is no longer a section of the site, yields a not-found
\* error rather than skipping the section's update.
C31_MissingSectionIsNotFound ==
    [][\A r \in Reqs :
          (/\ Ends(r) /\ Transition(req'[r])
           /\ \E k \in 1..Len(req'[r].tdoc.sections) :
                  /\ req'[r].tdoc.sections[k] \notin DOMAIN sections
                  /\ req'[r].tdoc.sections[k] \notin req'[r].ssecs) =>
              req'[r].res = "notfound"
      ]_vars

\* the section a request at updateSectionLastTask is about to write
NextSection(rq) == rq.tdoc.sections[rq.si + 1]

\* the summary a transition writes
Summary(rq) == [lastTaskStatus |-> rq.bstatus, lastTaskId |-> rq.task]

\* C32: marking a task rejected when its stored status is not 'rejected' sets
\* lastTaskStatus = 'rejected' and lastTaskId = the task's id on every
\* section the task references (each section the site holds, the site's
\* section list and the section's summary being the ones the request
\* loaded); marking a task rejected that is rejected already changes no
\* section.
C32_RejectionPropagates ==
    [][\A r \in Reqs :
          (req[r].op = "updateTask" /\ req[r].bstatus = "rejected" /\ req'[r] # req[r]) =>
              /\ req[r].tdoc.status = "rejected" => sections' = sections
              /\ (/\ req[r].pc = "secSave"
                  /\ NextSection(req[r]) \in DOMAIN sections
                  /\ siteVersion = req[r].sver
                  /\ sections[NextSection(req[r])] = req[r].ssum[NextSection(req[r])]) =>
                     /\ sections'[NextSection(req[r])] =
                            [lastTaskStatus |-> "rejected", lastTaskId |-> req[r].task]
                     /\ req'[r].res # "error"
              /\ (req[r].pc = "write" /\ req'[r].res = "ok"
                    /\ req[r].tdoc.status # "rejected") =>
                     req[r].si = Len(req[r].tdoc.sections)
      ]_vars

\* task 1 was rejected and s1 shows it; task 2's transition then wrote s2; a
\* second rejection of task 1 has answered and s2 still shows task 2
C32_Witness ==
    \E r \in Reqs :
        /\ req[r].op = "updateTask" /\ req[r].bstatus = "rejected" /\ req[r].task = 1
        /\ req[r].res = "ok" /\ req[r].tdoc.status = "rejected"
        /\ "s1" \in DOMAIN sections
        /\ sections["s1"] = [lastTaskStatus |-> "rejected", lastTaskId |-> 1]
        /\ sections["s2"].lastTaskId = 2

\* C33: after any sequence or interleaving of completions and rejections of
\* tasks that reference a section, each loading its own copy of the site and
\* saving it once per section, the section's lastTaskStatus and lastTaskId
\* are those of the transition applied last to that section, and an update
\* of one section never reverts another section's summary: a step changes
\* the summary of a section only as the save of a transition for that
\* section, which leaves there the transition's status and task id.
C33_LastTransitionWins ==
    [][/\ \A s \in DOMAIN sections \cap DOMAIN sections' :
              sections'[s] # sections[s] =>
                  \E r \in Reqs :
                      /\ req[r].pc = "secSave" /\ req'[r] # req[r]
                      /\ NextSection(req[r]) = s
                      /\ sections'[s] = Summary(req[r])
       /\ \A r \in Reqs :
              (/\ req[r].pc = "secSave" /\ req'[r] # req[r]
               /\ NextSection(req[r]) \in DOMAIN sections
               /\ siteVersion = req[r].sver) =>
                  sections'[NextSection(req[r])] = Summary(req[r])
      ]_vars

\* C35: the site's totalTasks and completedTasks never decrease across
\* createTask, updateTask, completeTask and deleteTask: each step leaves
\* each of them as it is or adds one.
C35_CountersStepUp ==
    [][/\ siteTotal' - siteTotal \in {0, 1}
       /\ siteCompleted' - siteCompleted \in {0, 1}]_vars

\* under the legacy controller a task was created and counted, completed and
\* counted, and deleted: both counters still hold it
C35_Witness ==
    /\ controller = "legacy"
    /\ siteTotal >= 1 /\ siteCompleted >= 1
    /\ tasks[1] = NoTask
    /\ \E r \in Reqs : req[r].op = "deleteTask" /\ req[r].res = "ok"

====
